---- MODULE Spec2Model ----
(***************************************************************************)
(* Model of the trend / anomaly detector of the sports-insights app        *)
(* (FootballAnomalyDetector: lib/AnomalyDetection.js, and its fuller       *)
(* revision with the narrative generator, src/unnamed/part_004) and of     *)
(* the calls the context feed (src/unnamed/part_001) makes on the shared   *)
(* detector instance; and of the play stream of the API service           *)
(* (lib/api.ts: subscribeToPlays, its onmessage / onerror handlers and     *)
(* reconnect timer, unsubscribeFromPlays) together with the play           *)
(* callbacks of the context feed and of the live game tile.                *)
(*                                                                         *)
(* Numbers.  A JavaScript number is modelled as an exact extended          *)
(* rational [n, d] in lowest terms with d >= 0; d = 0 encodes the IEEE     *)
(* special values the code can produce by dividing by zero:                *)
(*   [n |-> 0, d |-> 0] = NaN,  [n |-> 1, d |-> 0] = +Infinity,            *)
(*   [n |-> -1, d |-> 0] = -Infinity.                                      *)
(* Math.sqrt is never evaluated: standardDeviation is carried as its       *)
(* square (the variance) and the z-scores as their squares, and every      *)
(* comparison  a > std * s  between non-negative quantities is made as     *)
(* a^2 > var * s^2.  The inputs are small integers, so the only place      *)
(* where IEEE rounding could decide differently from exact arithmetic is   *)
(* an exact tie at a threshold.                                            *)
(***************************************************************************)
EXTENDS Integers, Sequences, FiniteSets

(***************************************************************************)
(* Extended rational arithmetic (IEEE-754 semantics for x/0, NaN, Inf).    *)
(***************************************************************************)
AbsInt(i) == IF i < 0 THEN -i ELSE i

SignInt(i) == IF i < 0 THEN -1 ELSE IF i > 0 THEN 1 ELSE 0

RECURSIVE Gcd(_, _)
Gcd(a, b) == IF b = 0 THEN a ELSE Gcd(b, a % b)

\* the number num/den, den of either sign or zero, in canonical form
Rat(num, den) ==
  IF den = 0 THEN [n |-> SignInt(num), d |-> 0]
  ELSE LET g == Gcd(AbsInt(num), AbsInt(den))
           s == SignInt(den)
       IN  [n |-> (s * num) \div g, d |-> (s * den) \div g]

Num(i) == [n |-> i, d |-> 1]

NaN == [n |-> 0, d |-> 0]

IsNaN(a) == a.d = 0 /\ a.n = 0

IsFinite(a) == a.d > 0

IsZero(a) == a.d > 0 /\ a.n = 0

Add(a, b) ==
  IF a.d = 0 /\ b.d = 0
  THEN (IF a.n = b.n THEN a ELSE NaN)
  ELSE Rat(a.n * b.d + b.n * a.d, a.d * b.d)

Neg(a) == [n |-> -a.n, d |-> a.d]

Sub(a, b) == Add(a, Neg(b))

Mul(a, b) == Rat(a.n * b.n, a.d * b.d)

Div(a, b) == Rat(a.n * b.d, a.d * b.n)

Abs(a) == [n |-> AbsInt(a.n), d |-> a.d]

\* a > b ; false as soon as one side is NaN
Gt(a, b) ==
  IF IsNaN(a) \/ IsNaN(b) THEN FALSE
  ELSE IF a.d = 0 /\ b.d = 0 THEN a.n > b.n
  ELSE a.n * b.d > b.n * a.d

Lt(a, b) == Gt(b, a)


(***************************************************************************)
(* Array helpers with JavaScript semantics.  Indices of the program are    *)
(* 0-based; a TLA+ sequence holds program index i at position i + 1.       *)
(***************************************************************************)
Max(a, b) == IF a > b THEN a ELSE b

Min(a, b) == IF a < b THEN a ELSE b

\* Array.prototype.slice(from, to): elements from..to-1, clamped to the array
Slice(arr, from, to) == SubSeq(arr, from + 1, Min(to, Len(arr)))

\* the array of numbers for an array of integers
ToNums(ints) == [i \in 1..Len(ints) |-> Num(ints[i])]

RECURSIVE SumTo(_, _)
SumTo(arr, k) == IF k = 0 THEN Num(0) ELSE Add(SumTo(arr, k - 1), arr[k])

\* arr.reduce((a, b) => a + b, 0)
Sum(arr) == SumTo(arr, Len(arr))

\* the program indices 0..n-1 of an array of length n, in increasing order
Indices(n) == [k \in 1..n |-> k - 1]

(***************************************************************************)
(* FootballAnomalyDetector: configuration and statistics.                  *)
(***************************************************************************)
DefaultWindowSize == 6

DefaultSensitivity == 2

\* 0.3, as tenths
DefaultMinChangeMagnitudeTenths == 3

\* new FootballAnomalyDetector(): the exported instance anomalyDetect
constructor ==
  [windowSize |-> DefaultWindowSize,
   sensitivity |-> Num(DefaultSensitivity),
   minChangeMagnitude |-> Rat(DefaultMinChangeMagnitudeTenths, 10)]

mean(arr) == Div(Sum(arr), Num(Len(arr)))

\* standardDeviation(arr) squared: the argument of its Math.sqrt
variance(arr) ==
  LET avg == mean(arr)
      squareDiffs == [i \in 1..Len(arr) |->
                        Mul(Sub(arr[i], avg), Sub(arr[i], avg))]
  IN  mean(squareDiffs)

\* a > standardDeviation * factor, for a >= 0 and factor >= 0 (NaN: false)
ExceedsStdTimes(a, var, factor) == Gt(Mul(a, a), Mul(var, Mul(factor, factor)))

\* calculateZScores, each entry squared: (|val - avg| / std)^2
calculateZScores(data) ==
  LET avg == mean(data)
      var == variance(data)
  IN  [i \in 1..Len(data) |->
         Div(Mul(Sub(data[i], avg), Sub(data[i], avg)), var)]

\* zScore > sensitivity, on the squared z-score
ZScoreExceeds(zsq, sensitivity) == Gt(zsq, Mul(sensitivity, sensitivity))

RECURSIVE SumXYTo(_, _, _)
SumXYTo(x, y, k) ==
  IF k = 0 THEN Num(0)
  ELSE Add(SumXYTo(x, y, k - 1),
           Mul(x[k], IF k <= Len(y) THEN y[k] ELSE NaN))

\* the covariance and variance sums taken without the factor n
linearRegressionWithoutN(x, y) ==
  LET sumX == Sum(x)
      sumY == Sum(y)
      sumXY == SumXYTo(x, y, Len(x))
      sumXX == SumXYTo(x, x, Len(x))
  IN  Div(Sub(sumXY, Mul(sumX, sumY)), Sub(sumXX, Mul(sumX, sumX)))

linearRegression(x, y) ==
  LET n == Num(Len(x))
      sumX == Sum(x)
      sumY == Sum(y)
      sumXY == SumXYTo(x, y, Len(x))
      sumXX == SumXYTo(x, x, Len(x))
  IN  Div(Sub(Mul(n, sumXY), Mul(sumX, sumY)),
          Sub(Mul(n, sumXX), Mul(sumX, sumX)))

\* a mean only for the positions that have a full window behind them
calculateRollingMeansFullWindowsOnly(det, data) ==
  [k \in 1..(Len(data) - det.windowSize + 1) |->
     LET i == k + det.windowSize - 2
     IN  mean(Slice(data, i - det.windowSize + 1, i + 1))]

\* the window taken one element too long: it starts at i - windowSize
calculateRollingMeansWideWindow(det, data) ==
  [k \in 1..Len(data) |->
     LET i == k - 1
         startIdx == Max(0, i - det.windowSize)
     IN  mean(Slice(data, startIdx, i + 1))]

calculateRollingMeans(det, data) ==
  [k \in 1..Len(data) |->
     LET i == k - 1
         startIdx == Max(0, i - det.windowSize + 1)
     IN  mean(Slice(data, startIdx, i + 1))]

calculateRollingSlopes(det, data, timePeriods) ==
  [k \in 1..Len(data) |->
     LET i == k - 1
         startIdx == Max(0, i - det.windowSize + 1)
         windowData == Slice(data, startIdx, i + 1)
         windowTime == Slice(timePeriods, startIdx, i + 1)
     IN  IF Len(windowData) > 1
         THEN linearRegression(windowTime, windowData)
         ELSE Num(0)]

\* the sign test taken as "not the same sign": a zero slope counts as a change
SignChangeOrZero(rollingSlopes, i) ==
  ~Gt(Mul(rollingSlopes[i + 1], rollingSlopes[i]), Num(0))

\* rollingSlopes[i] * rollingSlopes[i - 1] < 0, i a program index >= 1
SignChange(rollingSlopes, i) ==
  Lt(Mul(rollingSlopes[i + 1], rollingSlopes[i]), Num(0))

\* |rollingSlopes[i] - rollingSlopes[i - 1]| > minChangeMagnitude
MagnitudeChange(det, rollingSlopes, i) ==
  Gt(Abs(Sub(rollingSlopes[i + 1], rollingSlopes[i])), det.minChangeMagnitude)

\* an index flagged only when the sign and the magnitude both change
detectSlopeChangesBothConditions(det, rollingSlopes) ==
  IF Len(rollingSlopes) < 2 THEN <<>>
  ELSE LET Flag(i) == i >= 1 /\ SignChange(rollingSlopes, i)
                             /\ MagnitudeChange(det, rollingSlopes, i)
       IN  SelectSeq(Indices(Len(rollingSlopes)), Flag)

detectSlopeChanges(det, rollingSlopes) ==
  IF Len(rollingSlopes) < 2 THEN <<>>
  ELSE LET Flag(i) == i >= 1 /\ (SignChange(rollingSlopes, i)
                                  \/ MagnitudeChange(det, rollingSlopes, i))
       IN  SelectSeq(Indices(Len(rollingSlopes)), Flag)

\* data.slice(1).map((val, i) => val - data[i])
Differences(data) == [i \in 1..(Len(data) - 1) |-> Sub(data[i + 1], data[i])]

\* the earlier point of the jump pushed in place of the later one
SuddenIndexOfEarlierPoint(i) == i

\* the index i + 1 pushed for the difference with program index i
SuddenIndex(i) == i + 1

detectSuddenChanges(det, data) ==
  IF Len(data) < 2 THEN <<>>
  ELSE LET differences == Differences(data)
           diffVar == variance(differences)
           threshold(diff) == ExceedsStdTimes(Abs(diff), diffVar, det.sensitivity)
           Flag(i) == threshold(differences[i + 1])
           hits == SelectSeq(Indices(Len(differences)), Flag)
       IN  [k \in 1..Len(hits) |-> SuddenIndex(hits[k])]

(***************************************************************************)
(* Number formatting and the default Array.prototype.sort order.           *)
(***************************************************************************)
\* String(i) for an integer i >= 0: its decimal digits, most significant first
RECURSIVE NumberToString(_)
NumberToString(i) == IF i < 10 THEN <<i>> ELSE Append(NumberToString(i \div 10), i % 10)

\* s < t for strings of digits, compared code unit by code unit
RECURSIVE StringLess(_, _)
StringLess(s, t) ==
  IF t = <<>> THEN FALSE
  ELSE IF s = <<>> THEN TRUE
  ELSE IF Head(s) # Head(t) THEN Head(s) < Head(t)
  ELSE StringLess(Tail(s), Tail(t))

\* the comparison of sort() called without a compare function
DefaultCompareLess(a, b) == StringLess(NumberToString(a), NumberToString(b))

RECURSIVE InsertSorted(_, _)
InsertSorted(sorted, x) ==
  IF sorted = <<>> THEN <<x>>
  ELSE IF DefaultCompareLess(x, Head(sorted)) THEN <<x>> \o sorted
  ELSE <<Head(sorted)>> \o InsertSorted(Tail(sorted), x)

RECURSIVE SortTo(_, _)
SortTo(arr, k) ==
  IF k = 0 THEN <<>> ELSE InsertSorted(SortTo(arr, k - 1), arr[k])

\* arr.sort()
DefaultSort(arr) == SortTo(arr, Len(arr))

RECURSIVE UniqueTo(_, _)
UniqueTo(arr, k) ==
  IF k = 0 THEN <<>>
  ELSE LET rest == UniqueTo(arr, k - 1)
       IN  IF \E j \in 1..Len(rest) : rest[j] = arr[k]
           THEN rest ELSE Append(rest, arr[k])

\* the array spread without passing through a Set: duplicates are kept
NewSetKeepingDuplicates(arr) == arr

\* [...new Set(arr)]: the first occurrence of each element, in insertion order
NewSet(arr) == UniqueTo(arr, Len(arr))

RECURSIVE ISqrtBetween(_, _, _)
ISqrtBetween(m, lo, hi) ==
  IF hi - lo <= 1 THEN lo
  ELSE LET mid == (lo + hi) \div 2
       IN  IF mid * mid <= m THEN ISqrtBetween(m, mid, hi)
           ELSE ISqrtBetween(m, lo, mid)

\* floor(sqrt(m)) for 0 <= m
ISqrt(m) == ISqrtBetween(m, 0, Min(m + 1, 46341))

\* floor(num * f1 * ... * fk / den) for 0 <= num, 0 < den, taken one factor at
\* a time so that no intermediate product leaves the integer range
RECURSIVE ScaleFloor(_, _, _, _)
ScaleFloor(acc, rem, den, factors) ==
  IF factors = <<>> THEN acc
  ELSE LET x == rem * Head(factors)
       IN  ScaleFloor(acc * Head(factors) + (x \div den), x % den, den,
                      Tail(factors))

\* q.toFixed(2) for a finite q, as the signed number of hundredths
ToFixed2(q) ==
  LET twice == ScaleFloor(AbsInt(q.n) \div q.d, AbsInt(q.n) % q.d, q.d,
                          <<2, 10, 10>>)
  IN  SignInt(q.n) * ((twice + 1) \div 2)

\* Math.sqrt(zsq).toFixed(2) for a finite zsq >= 0, as hundredths
ToFixed2OfSqrt(zsq) ==
  LET m == ScaleFloor(zsq.n \div zsq.d, zsq.n % zsq.d, zsq.d,
                      <<4, 10, 10, 10, 10>>)
  IN  (ISqrt(m) + 1) \div 2

(***************************************************************************)
(* Classification, summary and the main detection method.                  *)
(***************************************************************************)
\* one fragment of a description: its template text, the word and sign the
\* template interpolates, and the toFixed(2) number in hundredths
Fragment(text, word, sign, fixed) ==
  [text |-> text, word |-> word, sign |-> sign, fixed |-> fixed]

\* a step to or from a zero slope counted as a reversal
TrendReversalOrZero(slopeBefore, slopeAfter) ==
  ~Gt(Mul(slopeBefore, slopeAfter), Num(0))

\* slopeBefore * slopeAfter < 0
TrendReversal(slopeBefore, slopeAfter) ==
  Lt(Mul(slopeBefore, slopeAfter), Num(0))

\* the AnomalyDetail of program index idx
ClassifyOne(det, data, rollingSlopes, idx, timePeriods, zScores) ==
  LET nums == ToNums(data)
      isOutlier == ZScoreExceeds(zScores[idx + 1], det.sensitivity)
      inSlopes == idx > 0 /\ idx < Len(rollingSlopes)
      slopeBefore == rollingSlopes[idx]
      slopeAfter == rollingSlopes[idx + 1]
      isTrendChange == inSlopes /\ Gt(Abs(Sub(slopeAfter, slopeBefore)),
                                      det.minChangeMagnitude)
      isReversal == inSlopes /\ TrendReversal(slopeBefore, slopeAfter)
      change == Sub(nums[idx + 1], nums[idx])
      diffVar == variance(Differences(nums))
      isSudden == idx > 0 /\ ExceedsStdTimes(Abs(change), diffVar, det.sensitivity)
      up == Gt(change, Num(0))
  IN  [index |-> idx,
       timePeriod |-> IF idx < Len(timePeriods) THEN timePeriods[idx + 1]
                      ELSE "undefined",
       value |-> data[idx + 1],
       types |->
           (IF isOutlier THEN <<"statistical_outlier">> ELSE <<>>)
        \o (IF isTrendChange THEN <<"trend_change">> ELSE <<>>)
        \o (IF isReversal THEN <<"trend_reversal">> ELSE <<>>)
        \o (IF isSudden THEN <<"sudden_change">> ELSE <<>>),
       description |->
           (IF isOutlier
            THEN <<Fragment("Statistical outlier (z-score: )", "", "",
                            ToFixed2OfSqrt(zScores[idx + 1]))>>
            ELSE <<>>)
        \o (IF isTrendChange
            THEN <<Fragment("Trend change:  trend",
                            IF Gt(slopeAfter, slopeBefore) THEN "increasing"
                            ELSE "decreasing", "", 0)>>
            ELSE <<>>)
        \o (IF isReversal
            THEN <<Fragment("Trend reversal detected", "", "", 0)>>
            ELSE <<>>)
        \o (IF isSudden
            THEN <<Fragment("Sudden  ()", IF up THEN "spike" ELSE "drop",
                            IF up THEN "+" ELSE "", ToFixed2(change))>>
            ELSE <<>>)]

classifyAnomalies(det, data, rollingSlopes, anomalyIndices, timePeriods, zScores) ==
  LET InData(idx) == ~(idx >= Len(data))
      kept == SelectSeq(anomalyIndices, InData)
  IN  [k \in 1..Len(kept) |->
         ClassifyOne(det, data, rollingSlopes, kept[k], timePeriods, zScores)]

\* the summary made of its header line alone
generateSummaryHeaderOnly(anomalyDetails, statName) ==
  IF Len(anomalyDetails) = 0
  THEN <<[line |-> "No significant anomalies detected in .", statName |-> statName]>>
  ELSE <<[line |-> "Detected  anomalies in :", count |-> Len(anomalyDetails),
          statName |-> statName]>>

\* the lines that generateSummary joins with "\n"
generateSummary(anomalyDetails, statName) ==
  IF Len(anomalyDetails) = 0
  THEN <<[line |-> "No significant anomalies detected in .", statName |-> statName]>>
  ELSE <<[line |-> "Detected  anomalies in :", count |-> Len(anomalyDetails),
          statName |-> statName]>>
       \o [k \in 1..Len(anomalyDetails) |->
             [line |-> "- Period : (value: )",
              timePeriod |-> anomalyDetails[k].timePeriod,
              description |-> anomalyDetails[k].description,
              value |-> anomalyDetails[k].value]]

\* the timePeriods argument: null, or an array
NullTime == [isNull |-> TRUE, arr |-> <<>>]

TimeOf(arr) == [isNull |-> FALSE, arr |-> arr]

\* the default time index counted from 0
DefaultTimePeriodsFromZero(n) == [k \in 1..n |-> k - 1]

\* Array.from({ length: n }, (_, i) => i + 1)
DefaultTimePeriods(n) == [k \in 1..n |-> k]

\* the z-score detector flagging nothing
StatisticalAnomaliesNone(det, zScores) == <<>>

\* zScores.map(..).filter(item => item.score > sensitivity).map(item => item.index)
StatisticalAnomalies(det, zScores) ==
  LET Flag(i) == ZScoreExceeds(zScores[i + 1], det.sensitivity)
  IN  SelectSeq(Indices(Len(zScores)), Flag)

\* the union taken without the statistical outliers
FuseAnomaliesWithoutOutliers(statisticalAnomalies, trendChanges, suddenChanges) ==
  DefaultSort(NewSet(trendChanges \o suddenChanges))

\* [...new Set([...statisticalAnomalies, ...trendChanges, ...suddenChanges])].sort()
FuseAnomalies(statisticalAnomalies, trendChanges, suddenChanges) ==
  DefaultSort(NewSet(statisticalAnomalies \o trendChanges \o suddenChanges))

\* the result reporting the required length in place of the actual one
InsufficientDataWrongLength(det, data) ==
  [error |-> [text |-> "Insufficient data points. Need at least  points.",
              windowSize |-> det.windowSize],
   dataLength |-> det.windowSize]

\* the result returned for a series shorter than windowSize
InsufficientData(det, data) ==
  [error |-> [text |-> "Insufficient data points. Need at least  points.",
              windowSize |-> det.windowSize],
   dataLength |-> Len(data)]

detectTrendChanges(det, data, statName, timePeriodsArg) ==
  IF Len(data) < det.windowSize
  THEN InsufficientData(det, data)
  ELSE LET timePeriods == IF timePeriodsArg.isNull
                          THEN DefaultTimePeriods(Len(data))
                          ELSE timePeriodsArg.arr
           nums == ToNums(data)
           rollingMeans == calculateRollingMeans(det, nums)
           rollingSlopes == calculateRollingSlopes(det, nums, ToNums(timePeriods))
           zScores == calculateZScores(nums)
           statisticalAnomalies == StatisticalAnomalies(det, zScores)
           trendChanges == detectSlopeChanges(det, rollingSlopes)
           suddenChanges == detectSuddenChanges(det, nums)
           allAnomalies == FuseAnomalies(statisticalAnomalies, trendChanges,
                                         suddenChanges)
           anomalyDetails == classifyAnomalies(det, data, rollingSlopes,
                                               allAnomalies, timePeriods, zScores)
       IN  [statName |-> statName,
            data |-> data,
            timePeriods |-> timePeriods,
            anomalies |-> allAnomalies,
            anomalyDetails |-> anomalyDetails,
            rollingMeans |-> rollingMeans,
            rollingSlopes |-> rollingSlopes,
            zScores |-> zScores,
            summary |-> generateSummary(anomalyDetails, statName)]

(***************************************************************************)
(* Strings of the narrative generator.  A string is the sequence of its    *)
(* characters, so that toLowerCase and toUpperCase are computed.           *)
(***************************************************************************)
UpperLetters ==
  <<"A", "B", "C", "D", "E", "F", "G", "H", "I", "J", "K", "L", "M",
    "N", "O", "P", "Q", "R", "S", "T", "U", "V", "W", "X", "Y", "Z">>

LowerLetters ==
  <<"a", "b", "c", "d", "e", "f", "g", "h", "i", "j", "k", "l", "m",
    "n", "o", "p", "q", "r", "s", "t", "u", "v", "w", "x", "y", "z">>

CharToLower(c) ==
  IF \E k \in 1..26 : UpperLetters[k] = c
  THEN LowerLetters[CHOOSE k \in 1..26 : UpperLetters[k] = c]
  ELSE c

CharToUpper(c) ==
  IF \E k \in 1..26 : LowerLetters[k] = c
  THEN UpperLetters[CHOOSE k \in 1..26 : LowerLetters[k] = c]
  ELSE c

\* String.prototype.toLowerCase
toLowerCase(str) == [k \in 1..Len(str) |-> CharToLower(str[k])]

\* the object literal of convertStatName, as its <<key, value>> entries in order
conversions ==
  <<<<<<"r", "u", "s", "h", " ", "a", "t", "t", "e", "m", "p", "t", "s">>,
      <<"r", "u", "s", "h", "i", "n", "g">>>>,
    <<<<"r", "u", "s", "h", "_", "a", "t", "t", "e", "m", "p", "t", "s">>,
      <<"r", "u", "s", "h", "i", "n", "g">>>>,
    <<<<"r", "u", "s", "h", "A", "t", "t", "e", "m", "p", "t", "s">>,
      <<"r", "u", "s", "h", "i", "n", "g">>>>,
    <<<<"r", "u", "s", "h", "i", "n", "g">>,
      <<"r", "u", "s", "h", "i", "n", "g">>>>,
    <<<<"p", "a", "s", "s", " ", "a", "t", "t", "e", "m", "p", "t", "s">>,
      <<"p", "a", "s", "s", "i", "n", "g">>>>,
    <<<<"p", "a", "s", "s", "_", "a", "t", "t", "e", "m", "p", "t", "s">>,
      <<"p", "a", "s", "s", "i", "n", "g">>>>,
    <<<<"p", "a", "s", "s", "A", "t", "t", "e", "m", "p", "t", "s">>,
      <<"p", "a", "s", "s", "i", "n", "g">>>>,
    <<<<"p", "a", "s", "s", "i", "n", "g">>,
      <<"p", "a", "s", "s", "i", "n", "g">>>>,
    <<<<"f", "i", "r", "s", "t", " ", "d", "o", "w", "n", "s">>,
      <<"f", "i", "r", "s", "t", " ", "d", "o", "w", "n", " ", "p", "r", "o", "d", "u", "c", "t", "i", "o", "n">>>>,
    <<<<"f", "i", "r", "s", "t", "_", "d", "o", "w", "n", "s">>,
      <<"f", "i", "r", "s", "t", " ", "d", "o", "w", "n", " ", "p", "r", "o", "d", "u", "c", "t", "i", "o", "n">>>>,
    <<<<"f", "i", "r", "s", "t", "D", "o", "w", "n", "s">>,
      <<"f", "i", "r", "s", "t", " ", "d", "o", "w", "n", " ", "p", "r", "o", "d", "u", "c", "t", "i", "o", "n">>>>,
    <<<<"1", "s", "t", " ", "d", "o", "w", "n", "s">>,
      <<"f", "i", "r", "s", "t", " ", "d", "o", "w", "n", " ", "p", "r", "o", "d", "u", "c", "t", "i", "o", "n">>>>,
    <<<<"t", "i", "m", "e", " ", "o", "f", " ", "p", "o", "s", "s", "e", "s", "s", "i", "o", "n">>,
      <<"t", "i", "m", "e", " ", "o", "f", " ", "p", "o", "s", "s", "e", "s", "s", "i", "o", "n">>>>,
    <<<<"t", "i", "m", "e", "O", "f", "P", "o", "s", "s", "e", "s", "s", "i", "o", "n">>,
      <<"t", "i", "m", "e", " ", "o", "f", " ", "p", "o", "s", "s", "e", "s", "s", "i", "o", "n">>>>,
    <<<<"t", "i", "m", "e", "_", "o", "f", "_", "p", "o", "s", "s", "e", "s", "s", "i", "o", "n">>,
      <<"t", "i", "m", "e", " ", "o", "f", " ", "p", "o", "s", "s", "e", "s", "s", "i", "o", "n">>>>,
    <<<<"y", "a", "r", "d", "s", " ", "p", "e", "r", " ", "p", "l", "a", "y">>,
      <<"o", "f", "f", "e", "n", "s", "i", "v", "e", " ", "e", "f", "f", "i", "c", "i", "e", "n", "c", "y">>>>,
    <<<<"y", "a", "r", "d", "s", "_", "p", "e", "r", "_", "p", "l", "a", "y">>,
      <<"o", "f", "f", "e", "n", "s", "i", "v", "e", " ", "e", "f", "f", "i", "c", "i", "e", "n", "c", "y">>>>,
    <<<<"y", "a", "r", "d", "s", "P", "e", "r", "P", "l", "a", "y">>,
      <<"o", "f", "f", "e", "n", "s", "i", "v", "e", " ", "e", "f", "f", "i", "c", "i", "e", "n", "c", "y">>>>,
    <<<<"t", "h", "i", "r", "d", " ", "d", "o", "w", "n", " ", "c", "o", "n", "v", "e", "r", "s", "i", "o", "n", "s">>,
      <<"t", "h", "i", "r", "d", " ", "d", "o", "w", "n", " ", "s", "u", "c", "c", "e", "s", "s">>>>,
    <<<<"t", "h", "i", "r", "d", "_", "d", "o", "w", "n", "_", "c", "o", "n", "v", "e", "r", "s", "i", "o", "n", "s">>,
      <<"t", "h", "i", "r", "d", " ", "d", "o", "w", "n", " ", "s", "u", "c", "c", "e", "s", "s">>>>,
    <<<<"t", "h", "i", "r", "d", "D", "o", "w", "n", "C", "o", "n", "v", "e", "r", "s", "i", "o", "n", "s">>,
      <<"t", "h", "i", "r", "d", " ", "d", "o", "w", "n", " ", "s", "u", "c", "c", "e", "s", "s">>>>,
    <<<<"r", "e", "d", " ", "z", "o", "n", "e", " ", "a", "t", "t", "e", "m", "p", "t", "s">>,
      <<"r", "e", "d", " ", "z", "o", "n", "e", " ", "o", "p", "p", "o", "r", "t", "u", "n", "i", "t", "i", "e", "s">>>>,
    <<<<"t", "u", "r", "n", "o", "v", "e", "r", "s">>,
      <<"b", "a", "l", "l", " ", "s", "e", "c", "u", "r", "i", "t", "y">>>>,
    <<<<"s", "a", "c", "k", "s", " ", "a", "l", "l", "o", "w", "e", "d">>,
      <<"p", "a", "s", "s", " ", "p", "r", "o", "t", "e", "c", "t", "i", "o", "n">>>>,
    <<<<"p", "e", "n", "a", "l", "t", "i", "e", "s">>,
      <<"d", "i", "s", "c", "i", "p", "l", "i", "n", "e">>>>>>

\* conversions[key]: the value of the own property key, if there is one
HasKey(key) == \E k \in 1..Len(conversions) : conversions[k][1] = key

Lookup(key) == conversions[CHOOSE k \in 1..Len(conversions) : conversions[k][1] = key][2]

convertStatName(statName) ==
  LET key == toLowerCase(statName)
  IN  IF HasKey(key) THEN Lookup(key) ELSE toLowerCase(statName)

\* str.charAt(0).toUpperCase() + str.slice(1)
capitalize(str) ==
  IF str = <<>> THEN <<>> ELSE <<CharToUpper(Head(str))>> \o Tail(str)

(***************************************************************************)
(* Narrative generation (the rule table of generateNarrative).             *)
(***************************************************************************)
Rushing == <<"r", "u", "s", "h", "i", "n", "g">>

Passing == <<"p", "a", "s", "s", "i", "n", "g">>

FirstDownProduction == <<"f", "i", "r", "s", "t", " ", "d", "o", "w", "n", " ", "p", "r", "o", "d", "u", "c", "t", "i", "o", "n">>

\* a value returned to JavaScript: a bare string, or an array
JsString(text) == [type |-> "string", value |-> text]

JsArray(arr) == [type |-> "array", value |-> arr]

\* anomalyDetails.filter(a => a.types.includes(type))
WithType(anomalyDetails, type) ==
  LET Has(a) == \E k \in 1..Len(a.types) : a.types[k] = type
  IN  SelectSeq(anomalyDetails, Has)

\* description.includes(word), word one of the interpolated words
DescriptionIncludes(description, word) ==
  \E k \in 1..Len(description) : description[k].word = word

RECURSIVE InsertByIndex(_, _)
InsertByIndex(sorted, a) ==
  IF sorted = <<>> THEN <<a>>
  ELSE IF a.index < Head(sorted).index THEN <<a>> \o sorted
  ELSE <<Head(sorted)>> \o InsertByIndex(Tail(sorted), a)

RECURSIVE SortByIndexTo(_, _)
SortByIndexTo(arr, k) ==
  IF k = 0 THEN <<>> ELSE InsertByIndex(SortByIndexTo(arr, k - 1), arr[k])

\* arr.sort((a, b) => a.index - b.index)
SortByIndex(arr) == SortByIndexTo(arr, Len(arr))

\* the sentence decided by the earliest trend anomaly in place of the latest
generateTrendStatementsOfEarliest(trendChanges, trendReversals, statName, rollingSlopes) ==
  LET allTrendAnomalies == SortByIndex(trendChanges \o trendReversals)
      latestAnomaly == allTrendAnomalies[1]
      currentSlope == rollingSlopes[latestAnomaly.index + 1]
  IN  IF Len(allTrendAnomalies) = 0 THEN <<>>
      ELSE IF \E k \in 1..Len(trendReversals) :
                 trendReversals[k].index = latestAnomaly.index
      THEN (IF Gt(currentSlope, Num(0))
            THEN <<[text |-> " has picked up significantly.",
                    stat |-> capitalize(statName)]>>
            ELSE <<[text |-> " has dropped off notably.",
                    stat |-> capitalize(statName)]>>)
      ELSE IF Gt(currentSlope, Rat(1, 2))
      THEN <<[text |-> "The team has been increasing their .", stat |-> statName]>>
      ELSE IF Lt(currentSlope, Rat(-1, 2))
      THEN <<[text |-> " has decreased over the last few drives.",
              stat |-> capitalize(statName)]>>
      ELSE IF Gt(Abs(currentSlope), Rat(1, 5))
      THEN <<[text |-> "There's been a slight  in  recently.",
              direction |-> IF Gt(currentSlope, Num(0)) THEN "uptick"
                            ELSE "downtick",
              stat |-> statName]>>
      ELSE <<>>

generateTrendStatements(trendChanges, trendReversals, statName, rollingSlopes) ==
  LET allTrendAnomalies == SortByIndex(trendChanges \o trendReversals)
      latestAnomaly == allTrendAnomalies[Len(allTrendAnomalies)]
      currentSlope == rollingSlopes[latestAnomaly.index + 1]
  IN  IF Len(allTrendAnomalies) = 0 THEN <<>>
      ELSE IF \E k \in 1..Len(trendReversals) :
                 trendReversals[k].index = latestAnomaly.index
      THEN (IF Gt(currentSlope, Num(0))
            THEN <<[text |-> " has picked up significantly.",
                    stat |-> capitalize(statName)]>>
            ELSE <<[text |-> " has dropped off notably.",
                    stat |-> capitalize(statName)]>>)
      ELSE IF Gt(currentSlope, Rat(1, 2))
      THEN <<[text |-> "The team has been increasing their .", stat |-> statName]>>
      ELSE IF Lt(currentSlope, Rat(-1, 2))
      THEN <<[text |-> " has decreased over the last few drives.",
              stat |-> capitalize(statName)]>>
      ELSE IF Gt(Abs(currentSlope), Rat(1, 5))
      THEN <<[text |-> "There's been a slight  in  recently.",
              direction |-> IF Gt(currentSlope, Num(0)) THEN "uptick"
                            ELSE "downtick",
              stat |-> statName]>>
      ELSE <<>>

\* the description searched for the capitalised words, which it never holds
SuddenChangeStatementCaseSensitive(change, statName) ==
  IF DescriptionIncludes(change.description, "Spike")
  THEN <<[text |-> "There was a sudden surge in .", stat |-> statName]>>
  ELSE IF DescriptionIncludes(change.description, "Drop")
  THEN <<[text |-> "There was a noticeable drop in .", stat |-> statName]>>
  ELSE <<>>

\* the sentences pushed for one sudden change
SuddenChangeStatement(change, statName) ==
  IF DescriptionIncludes(change.description, "spike")
  THEN (IF statName = Rushing
        THEN <<[text |-> "The team suddenly emphasized the running game."]>>
        ELSE IF statName = Passing
        THEN <<[text |-> "The offense opened up the passing attack."]>>
        ELSE IF statName = FirstDownProduction
        THEN <<[text |-> "The offense found their rhythm and started moving the chains."]>>
        ELSE <<[text |-> "There was a sudden surge in .", stat |-> statName]>>)
  ELSE IF DescriptionIncludes(change.description, "drop")
  THEN (IF statName = Rushing
        THEN <<[text |-> "The team moved away from the running game."]>>
        ELSE IF statName = Passing
        THEN <<[text |-> "The passing game stalled."]>>
        ELSE IF statName = FirstDownProduction
        THEN <<[text |-> "The offense struggled to sustain drives."]>>
        ELSE <<[text |-> "There was a noticeable drop in .", stat |-> statName]>>)
  ELSE <<>>

RECURSIVE SuddenStatementsTo(_, _, _)
SuddenStatementsTo(suddenChanges, statName, k) ==
  IF k = 0 THEN <<>>
  ELSE SuddenStatementsTo(suddenChanges, statName, k - 1)
       \o SuddenChangeStatement(suddenChanges[k], statName)

generateSuddenChangeStatements(suddenChanges, statName) ==
  SuddenStatementsTo(suddenChanges, statName, Len(suddenChanges))

generateOutlierStatements(outliers, statName, data) ==
  LET dataAvg == mean(ToNums(data))
  IN  [k \in 1..Len(outliers) |->
         LET outlier == outliers[k]
             isHigh == Gt(Num(outlier.value), dataAvg)
         IN  IF isHigh
             THEN (IF statName = Rushing
                   THEN [text |-> "The team heavily featured the running game with  attempts.",
                         value |-> outlier.value]
                   ELSE IF statName = Passing
                   THEN [text |-> "The quarterback was very busy, throwing  passes.",
                         value |-> outlier.value]
                   ELSE IF statName = FirstDownProduction
                   THEN [text |-> "The offense was extremely efficient, converting  first downs.",
                         value |-> outlier.value]
                   ELSE [text |-> " was unusually high at .",
                         stat |-> capitalize(statName), value |-> outlier.value])
             ELSE (IF statName = Rushing
                   THEN [text |-> "The running game was nearly abandoned with only  attempts.",
                         value |-> outlier.value]
                   ELSE IF statName = Passing
                   THEN [text |-> "The passing game was minimal with just  attempts.",
                         value |-> outlier.value]
                   ELSE IF statName = FirstDownProduction
                   THEN [text |-> "The offense struggled badly, managing only  first downs.",
                         value |-> outlier.value]
                   ELSE [text |-> " was surprisingly low at .",
                         stat |-> capitalize(statName), value |-> outlier.value])]

\* results.error is set (a non-empty string, so truthy)
HasError(results) == "error" \in DOMAIN results

\* the early return taken without pushing the sentence
ConsistentStatementsNotPushed(readableStatName) == <<>>

\* the statements returned when anomalyDetails is empty
ConsistentStatements(readableStatName) ==
  <<[text |-> " has remained fairly consistent throughout the game.",
     stat |-> readableStatName]>>

\* the outlier sentences pushed before the sudden-change sentences
generateNarrativeOutliersFirst(results) ==
  IF HasError(results)
  THEN JsString("Not enough data to analyze trends yet.")
  ELSE LET readableStatName == convertStatName(results.statName)
           anomalyDetails == results.anomalyDetails
           trendChanges == WithType(anomalyDetails, "trend_change")
           trendReversals == WithType(anomalyDetails, "trend_reversal")
           suddenChanges == WithType(anomalyDetails, "sudden_change")
           outliers == WithType(anomalyDetails, "statistical_outlier")
       IN  IF Len(anomalyDetails) = 0
           THEN JsArray(ConsistentStatements(readableStatName))
           ELSE JsArray(
                  generateTrendStatements(trendChanges, trendReversals,
                                          readableStatName, results.rollingSlopes)
               \o generateOutlierStatements(outliers, readableStatName,
                                            results.data)
               \o generateSuddenChangeStatements(suddenChanges,
                                                 readableStatName))

generateNarrative(results) ==
  IF HasError(results)
  THEN JsString("Not enough data to analyze trends yet.")
  ELSE LET readableStatName == convertStatName(results.statName)
           anomalyDetails == results.anomalyDetails
           trendChanges == WithType(anomalyDetails, "trend_change")
           trendReversals == WithType(anomalyDetails, "trend_reversal")
           suddenChanges == WithType(anomalyDetails, "sudden_change")
           outliers == WithType(anomalyDetails, "statistical_outlier")
       IN  IF Len(anomalyDetails) = 0
           THEN JsArray(ConsistentStatements(readableStatName))
           ELSE JsArray(
                  (IF Len(trendChanges) > 0 \/ Len(trendReversals) > 0
                   THEN generateTrendStatements(trendChanges, trendReversals,
                                                readableStatName,
                                                results.rollingSlopes)
                   ELSE <<>>)
               \o (IF Len(suddenChanges) > 0
                   THEN generateSuddenChangeStatements(suddenChanges,
                                                       readableStatName)
                   ELSE <<>>)
               \o (IF Len(outliers) > 0
                   THEN generateOutlierStatements(outliers, readableStatName,
                                                  results.data)
                   ELSE <<>>))

(***************************************************************************)
(* The inputs: the series, labels and time indexes the callers pass.       *)
(***************************************************************************)
\* longest yards series of the feed that is analysed
MaxLen == 11

\* linear series: greatest step either way, and greatest length
MaxStep == 2

MaxLinLen == 7

\* explicit time indexes: greatest stride
MaxTimeStep == 2

\* most detections a caller runs on its series
MaxCalls == 2

YardsPerPlay == <<"Y", "a", "r", "d", "s", " ", "p", "e", "r", " ", "p", "l", "a", "y">>

RushesPerDrive == <<"R", "u", "s", "h", "e", "s", " ", "p", "e", "r", " ", "d", "r", "i", "v", "e">>

\* the series the feed analyses after every play
DemoSeries == <<0, 1, 2, 3, 6, 10, 3, 1, 5>>

\* series of length len that are 0 but for a 1 at one or two positions
SpikeSeries(len) ==
  { [k \in 1..len |-> IF k = p \/ k = q THEN 1 ELSE 0] : p, q \in 1..len }

\* the series start, start + step, ... of length len
LinearSeries(len) ==
  { [k \in 1..len |-> start + step * (k - 1)] :
      start \in {0, 1}, step \in (-MaxStep)..MaxStep }

\* time indexes for a series of length len: of its length or off by one,
\* constant (stride 0) or increasing
TimeIndexes(len) ==
  { TimeOf([k \in 1..n |-> 1 + stride * (k - 1)]) :
      n \in {len - 1, len, len + 1}, stride \in 0..MaxTimeStep }

\* stat names: every key of the synonym table, and names that are not keys
StatNames ==
  { conversions[k][1] : k \in 1..Len(conversions) }
  \cup {<<"R", "u", "s", "h", "e", "s", " ", "p", "e", "r", " ", "d", "r", "i", "v", "e">>,
          <<"Y", "a", "r", "d", "s", " ", "p", "e", "r", " ", "p", "l", "a", "y">>,
          <<"R", "u", "s", "h", " ", "A", "t", "t", "e", "m", "p", "t", "s">>,
          <<"P", "A", "S", "S", "I", "N", "G">>,
          <<"s", "a", "c", "k", "s">>,
          <<"F", "i", "r", "s", "t", " ", "D", "o", "w", "n", "s">>,
          <<"C", "o", "m", "p", "l", "e", "t", "i", "o", "n", "s", " ", "p", "e", "r", " ", "d", "r", "i", "v", "e">>}

Call(d, s, t) == [data |-> d, statName |-> s, timePeriods |-> t]

\* No quantity the detectors compare with a threshold lies exactly on it.  On
\* such a tie the rounding of the code's floating-point arithmetic decides;
\* everywhere else exact arithmetic decides as the code does.  (A variance of
\* exactly 0 is no tie: the code computes it without rounding.)
TieFree(det, d, t) ==
  LET nums == ToNums(d)
      times == ToNums(IF t.isNull THEN DefaultTimePeriods(Len(d)) ELSE t.arr)
      slopes == calculateRollingSlopes(det, nums, times)
      zScores == calculateZScores(nums)
      differences == Differences(nums)
      diffVar == variance(differences)
      s2 == Mul(det.sensitivity, det.sensitivity)
  IN  /\ \A i \in 2..Len(slopes) :
           Abs(Sub(slopes[i], slopes[i - 1])) # det.minChangeMagnitude
      /\ \A i \in 1..Len(zScores) : zScores[i] # s2
      /\ \A i \in 1..Len(differences) :
           IsZero(diffVar)
           \/ Mul(differences[i], differences[i]) # Mul(diffVar, s2)

AllInputs ==
  \* the feed's yards series (no time index)
  { Call(d, YardsPerPlay, NullTime) :
      d \in UNION { SpikeSeries(len) : len \in 0..MaxLen } }
  \* linear ramps and constant series
  \cup { Call(d, Rushing, NullTime) :
      d \in UNION { LinearSeries(len) : len \in 0..MaxLinLen } }
  \* series around the window size with an explicit time index
  \cup UNION { { Call(d, Rushing, t) :
                   d \in LinearSeries(len), t \in TimeIndexes(len) } :
               len \in {DefaultWindowSize, DefaultWindowSize + 1} }
  \* every stat name, on the feed's fixed series
  \cup { Call(DemoSeries, s, NullTime) : s \in StatNames }

Inputs == { inp \in AllInputs : TieFree(constructor, inp.data, inp.timePeriods) }

(***************************************************************************)
(* State: the shared detector instance, the arguments of the caller, and   *)
(* what the calls made so far returned.                                    *)
(***************************************************************************)
VARIABLES detector, data, statName, timePeriods, calls, results, firstResults,
          narrative, readableStatName, demoResults

\* the play stream: the fields of ApiService, the lifecycle of the two
\* subscribing components, the plays received and those whose commentary is
\* awaited, and the state the play callbacks keep
VARIABLES eventSource, playCallbacks, isConnected, reconnectTimers, opened,
          mounts, received, pending, play_archive, anomalyCounts,
          detectionLog, tileUpdates

\* the game state: the service's game context, the objects the game states
\* share (win probability and drive info), the game state each component
\* displays, and the feed's context items
VARIABLES gameContext, heap, gameState, contextItems

gameVars == <<gameContext, heap, gameState, contextItems>>

streamVars == <<eventSource, playCallbacks, isConnected, reconnectTimers, opened,
                mounts, received, pending, play_archive, anomalyCounts,
                detectionLog, tileUpdates>>

vars == <<detector, data, statName, timePeriods, calls, results, firstResults,
          narrative, readableStatName, demoResults, streamVars, gameVars>>

\* the components that subscribe a play callback
Callbacks == {"contextFeed", "liveGameTile"}

\* this.eventSource = null
null == [id |-> 0, readyState |-> "null"]

\* the service and the components before anything is mounted
StreamIdle ==
  /\ eventSource = null
  /\ playCallbacks = <<>>
  /\ isConnected = FALSE
  /\ reconnectTimers = 0
  /\ opened = 0
  /\ mounts = [cb \in Callbacks |-> 0]
  /\ received = <<>>
  /\ pending = {}
  /\ play_archive = <<>>
  /\ anomalyCounts = 0
  /\ detectionLog = <<>>
  /\ tileUpdates = 0

\* useState's initial game state in a component whose nested objects are at
\* the places winProbability and driveInfo of the heap
InitialGameState(winProbability, driveInfo) ==
  [homeTeam |-> "", awayTeam |-> "", homeScore |-> 0, awayScore |-> 0,
   quarter |-> [number |-> 1, suffix |-> "st"],
   timeLeft |-> [minutes |-> <<1, 5>>, seconds |-> <<0, 0>>],
   possession |-> "home", down |-> 1, distance |-> 10, yardLine |-> 25,
   winProbability |-> winProbability, driveInfo |-> driveInfo]

\* { plays: 0, yards: 0, timeOfPossession: "0:00" }
NewDriveInfo == [plays |-> 0, yards |-> 0, timeOfPossession |-> "0:00"]

\* the game context of the service and the game state of the components
\* before anything is mounted: each component has its own nested objects
GameIdle ==
  /\ gameContext = [homeTeam |-> "", awayTeam |-> "", homeScore |-> 0,
                    awayScore |-> 0]
  /\ heap = <<[home |-> 50, away |-> 50], NewDriveInfo,
              [home |-> 50, away |-> 50], NewDriveInfo>>
  /\ gameState = [cb \in Callbacks |->
                    IF cb = "contextFeed" THEN InitialGameState(1, 2)
                    ELSE InitialGameState(3, 4)]
  /\ contextItems = <<>>

\* the slot of a return value: nothing returned yet, or the value returned
NotCalled == [called |-> FALSE, value |-> <<>>]

Returned(v) == [called |-> TRUE, value |-> v]

Init ==
  /\ detector = constructor
  /\ \E inp \in Inputs :
       /\ data = inp.data
       /\ statName = inp.statName
       /\ timePeriods = inp.timePeriods
  /\ calls = 0
  /\ results = NotCalled
  /\ firstResults = NotCalled
  /\ narrative = NotCalled
  /\ readableStatName = NotCalled
  /\ demoResults = NotCalled
  /\ StreamIdle
  /\ GameIdle

\* anomalyDetect.detectTrendChanges(data, statName, timePeriods)
DetectTrendChanges ==
  /\ calls < MaxCalls
  /\ calls' = calls + 1
  /\ results' = Returned(detectTrendChanges(detector, data, statName, timePeriods))
  /\ firstResults' = IF firstResults.called THEN firstResults ELSE results'
  /\ UNCHANGED <<detector, data, statName, timePeriods, narrative,
                 readableStatName, demoResults, streamVars,
                 gameVars>>

\* anomalyDetect.generateNarrative(results); readableStatName is the local
\* of that name, assigned unless the call returns at its first test
GenerateNarrative ==
  /\ results.called
  /\ narrative' = Returned(generateNarrative(results.value))
  /\ readableStatName' = IF HasError(results.value) THEN readableStatName
                         ELSE Returned(convertStatName(results.value.statName))
  /\ UNCHANGED <<detector, data, statName, timePeriods, calls, results,
                 firstResults, demoResults, streamVars,
                 gameVars>>

\* the same, with a detector that keeps the length of the last series analysed
\* as its window size
DemoDetectionAdaptingWindow ==
  /\ ~demoResults.called
  /\ LET res == detectTrendChanges(detector, DemoSeries, RushesPerDrive, NullTime)
     IN  demoResults' = Returned([res |-> res, narrative |-> generateNarrative(res)])
  /\ detector' = [detector EXCEPT !.windowSize = Len(DemoSeries)]
  /\ UNCHANGED <<data, statName, timePeriods, calls, results, firstResults,
                 narrative, readableStatName, streamVars,
                 gameVars>>

\* the feed's detection and narrative on its fixed series, on the same instance
DemoDetection ==
  /\ ~demoResults.called
  /\ LET res == detectTrendChanges(detector, DemoSeries, RushesPerDrive, NullTime)
     IN  demoResults' = Returned([res |-> res, narrative |-> generateNarrative(res)])
  /\ UNCHANGED <<detector, data, statName, timePeriods, calls, results,
                 firstResults, narrative, readableStatName, streamVars,
                 gameVars>>

Next ==
  \/ DetectTrendChanges
  \/ GenerateNarrative
  \/ DemoDetection

Spec == Init /\ [][Next]_vars

(***************************************************************************)
(* The play stream.  ApiService (lib/api.ts) keeps one EventSource and the *)
(* list of play callbacks; the context feed (src/unnamed/part_001) and the *)
(* live game tile (components/live-game-tile.tsx) each subscribe one.  For *)
(* every message the service calls the callbacks with the play in its      *)
(* loading state, awaits the commentary, and calls them again.  Of the     *)
(* callbacks' effects the model keeps what the detection reads and writes; *)
(* the React display state (game state, context items) is read by none of  *)
(* it and is modelled in the game state section below.                     *)
(***************************************************************************)
\* the plays received from the stream over one run
MaxPlays == 3

\* the connections opened over one run
MaxConnections == 3

\* the reconnect timers pending at one time
MaxTimers == 2

\* the times one component is mounted over one run
MaxMounts == 2

\* the kinds of play the stream delivers: play_type, yards_gained, and whether
\* the description contains "incomplete"
PlayKinds ==
  { [play_type |-> "RUSH", yards_gained |-> 0, incomplete |-> FALSE],
    [play_type |-> "SCRAMBLE", yards_gained |-> 4, incomplete |-> FALSE],
    [play_type |-> "PASS", yards_gained |-> 4, incomplete |-> FALSE],
    [play_type |-> "PUNT", yards_gained |-> 0, incomplete |-> FALSE] }

\* the k-th play of the stream as the callbacks receive it; the commentary
\* text the service attaches is displayed and read by nothing else
EnhancedPlay(k, kind) ==
  [id |-> k, play_type |-> kind.play_type, yards_gained |-> kind.yards_gained,
   incomplete |-> kind.incomplete]

\* the fields of the service that subscribing reads and writes
Service == [eventSource |-> eventSource, playCallbacks |-> playCallbacks,
            opened |-> opened]

\* new EventSource(url): the next connection, connecting
NewEventSource(svc) == [id |-> svc.opened + 1, readyState |-> "CONNECTING"]

subscribeToPlays(svc, callback) ==
  LET pushed == [svc EXCEPT !.playCallbacks = Append(@, callback)]
  IN  IF svc.eventSource = null
      THEN [pushed EXCEPT !.eventSource = NewEventSource(svc),
                          !.opened = @ + 1]
      ELSE pushed

\* callbacks.forEach(cb => this.subscribeToPlays(cb))
RECURSIVE SubscribeAllTo(_, _, _)
SubscribeAllTo(svc, callbacks, k) ==
  IF k = 0 THEN svc
  ELSE subscribeToPlays(SubscribeAllTo(svc, callbacks, k - 1), callbacks[k])

\* the timer callback that subscribes the callbacks again without emptying
\* the list first
reconnectKeepingCallbacks(svc) ==
  IF svc.eventSource.readyState = "CLOSED"
  THEN IF Len(svc.playCallbacks) > 0
       THEN SubscribeAllTo([svc EXCEPT !.eventSource = null],
                           svc.playCallbacks, Len(svc.playCallbacks))
       ELSE [svc EXCEPT !.eventSource = null]
  ELSE svc

\* the callback of the reconnect timer
reconnect(svc) ==
  IF svc.eventSource.readyState = "CLOSED"
  THEN IF Len(svc.playCallbacks) > 0
       THEN SubscribeAllTo([svc EXCEPT !.eventSource = null,
                                       !.playCallbacks = <<>>],
                           svc.playCallbacks, Len(svc.playCallbacks))
       ELSE [svc EXCEPT !.eventSource = null]
  ELSE svc

unsubscribeFromPlays(svc, callback) ==
  LET Other(cb) == cb # callback
      kept == SelectSeq(svc.playCallbacks, Other)
  IN  IF Len(kept) = 0 /\ svc.eventSource # null
      THEN [svc EXCEPT !.playCallbacks = kept, !.eventSource = null]
      ELSE [svc EXCEPT !.playCallbacks = kept]

\* the play types of the feed's yards series
allowedTypes == {"PASS", "RUSH", "SCRAMBLE"}

\* the feed analyses its series once it has this many points
FeedMinPoints == 6

\* the feed analyses this many of the latest points
FeedSeriesCap == 30

\* arr.slice(-n)
SliceFromEnd(arr, n) == SubSeq(arr, Max(1, Len(arr) - n + 1), Len(arr))

\* the state the play callbacks read and write, and whether one has raised
SubscriberState ==
  [play_archive |-> play_archive, anomalyCounts |-> anomalyCounts,
   detectionLog |-> detectionLog, narrative |-> narrative,
   readableStatName |-> readableStatName, tileUpdates |-> tileUpdates,
   thrown |-> FALSE]

\* historicalYards, and the current play's yards if its type matches
YardsSeries(archive, enhancedPlay) ==
  LET Allowed(p) == p.play_type \in allowedTypes
      archived == SelectSeq(archive, Allowed)
      historicalYards == [k \in 1..Len(archived) |-> archived[k].yards_gained]
  IN  IF Allowed(enhancedPlay)
      THEN Append(historicalYards, enhancedPlay.yards_gained)
      ELSE historicalYards

\* the feed's callback: the yards series and its detection (whose result and
\* narrative go to anomalyCountsRef and to the context item), then the
\* per-drive counters, which raise when a completed pass meets an empty
\* archive (play_archive[-1].offense_team), then the push to the archive.
\* The detection on the fixed series that ends it is only logged.
handleNewPlay(det, s, enhancedPlay) ==
  LET yardsSeries == YardsSeries(s.play_archive, enhancedPlay)
      analysed == SliceFromEnd(yardsSeries, FeedSeriesCap)
      runs == Len(yardsSeries) >= FeedMinPoints
      logged == [s EXCEPT !.detectionLog =
                   Append(@, [id |-> enhancedPlay.id, yardsSeries |-> analysed,
                              detected |-> runs])]
      detected ==
        IF runs
        THEN CHOOSE after \in
               { IF HasError(res) THEN logged
                 ELSE IF Len(res.anomalyDetails) > s.anomalyCounts
                 THEN [logged EXCEPT
                         !.anomalyCounts = Len(res.anomalyDetails),
                         !.narrative = Returned(generateNarrative(res)),
                         !.readableStatName =
                             Returned(convertStatName(res.statName))]
                 ELSE [logged EXCEPT !.anomalyCounts = Len(res.anomalyDetails)] :
                 res \in {detectTrendChanges(det, analysed, YardsPerPlay,
                                             NullTime)} } : TRUE
        ELSE logged
      throws == /\ enhancedPlay.play_type = "PASS"
                /\ ~enhancedPlay.incomplete
                /\ Len(s.play_archive) = 0
  IN  IF throws THEN [detected EXCEPT !.thrown = TRUE]
      ELSE [detected EXCEPT !.play_archive = Append(@, enhancedPlay)]

\* the tile's callback: one update of its game state
TileHandleNewPlay(s, play) == [s EXCEPT !.tileUpdates = @ + 1]

\* this.playCallbacks.forEach(cb => cb(play)); an exception ends the loop
RECURSIVE ForEachCallbackTo(_, _, _, _, _)
ForEachCallbackTo(det, callbacks, s, play, k) ==
  IF k = 0 THEN s
  ELSE CHOOSE after \in
         { IF before.thrown THEN before
           ELSE IF callbacks[k] = "contextFeed"
           THEN handleNewPlay(det, before, play)
           ELSE TileHandleNewPlay(before, play) :
           before \in {ForEachCallbackTo(det, callbacks, s, play, k - 1)} } : TRUE

ForEachCallback(det, callbacks, s, play) ==
  ForEachCallbackTo(det, callbacks, s, play, Len(callbacks))

\* the callbacks' state after the calls
Adopt(s) ==
  /\ play_archive' = s.play_archive
  /\ anomalyCounts' = s.anomalyCounts
  /\ detectionLog' = s.detectionLog
  /\ narrative' = s.narrative
  /\ readableStatName' = s.readableStatName
  /\ tileUpdates' = s.tileUpdates

\* the service's fields after a call
AdoptService(svc) ==
  /\ eventSource' = svc.eventSource
  /\ playCallbacks' = svc.playCallbacks
  /\ opened' = svc.opened

StreamInit ==
  /\ detector = constructor
  /\ data = <<>>
  /\ statName = YardsPerPlay
  /\ timePeriods = NullTime
  /\ calls = 0
  /\ results = NotCalled
  /\ firstResults = NotCalled
  /\ narrative = NotCalled
  /\ readableStatName = NotCalled
  /\ demoResults = NotCalled
  /\ StreamIdle
  /\ GameIdle

\* a component mounts: its effect subscribes its play callback; the feed's
\* anomalyCountsRef starts empty
Mount(cb) ==
  /\ \A k \in 1..Len(playCallbacks) : playCallbacks[k] # cb
  /\ mounts[cb] < MaxMounts
  /\ eventSource = null => opened < MaxConnections
  /\ mounts' = [mounts EXCEPT ![cb] = @ + 1]
  /\ AdoptService(subscribeToPlays(Service, cb))
  /\ anomalyCounts' = IF cb = "contextFeed" THEN 0 ELSE anomalyCounts
  /\ UNCHANGED <<detector, data, statName, timePeriods, calls, results,
                 firstResults, narrative, readableStatName, demoResults,
                 isConnected, reconnectTimers, received, pending,
                 play_archive, detectionLog, tileUpdates,
                 gameVars>>

\* a component unmounts: the cleanup of its effect unsubscribes the callback
Unmount(cb) ==
  /\ \E k \in 1..Len(playCallbacks) : playCallbacks[k] = cb
  /\ AdoptService(unsubscribeFromPlays(Service, cb))
  /\ UNCHANGED <<detector, data, statName, timePeriods, calls, results,
                 firstResults, narrative, readableStatName, demoResults,
                 isConnected, reconnectTimers, mounts, received, pending,
                 play_archive, anomalyCounts, detectionLog, tileUpdates,
                 gameVars>>

\* the browser establishes the connection
StreamOpens ==
  /\ eventSource.readyState = "CONNECTING"
  /\ eventSource' = [eventSource EXCEPT !.readyState = "OPEN"]
  /\ UNCHANGED <<detector, data, statName, timePeriods, calls, results,
                 firstResults, narrative, readableStatName, demoResults,
                 playCallbacks, isConnected, reconnectTimers, opened, mounts,
                 received, pending, play_archive, anomalyCounts, detectionLog,
                 tileUpdates,
                 gameVars>>

\* eventSource.onmessage up to its await: the callbacks are called with the
\* play in its loading state; an exception of a callback ends the handler
OnMessage(kind) ==
  /\ eventSource.readyState = "OPEN"
  /\ Len(received) < MaxPlays
  /\ \E enhancedPlay \in {EnhancedPlay(Len(received) + 1, kind)} :
       \E s \in {ForEachCallback(detector, playCallbacks, SubscriberState,
                                 enhancedPlay)} :
         /\ received' = Append(received, enhancedPlay)
         /\ Adopt(s)
         /\ pending' = IF s.thrown THEN pending ELSE pending \cup {enhancedPlay}
  /\ UNCHANGED <<detector, data, statName, timePeriods, calls, results,
                 firstResults, demoResults, eventSource, playCallbacks,
                 isConnected, reconnectTimers, opened, mounts,
                 gameVars>>

\* eventSource.onmessage after its await: the callbacks are called again
\* with the play carrying the commentary, or the failure text if generating
\* it failed; if a callback raises on the generated commentary they are
\* called once more with the failure text; then the service reports itself
\* connected
CommentarySettles(play, generated) ==
  /\ play \in pending
  /\ pending' = pending \ {play}
  /\ \E first \in {ForEachCallback(detector, playCallbacks, SubscriberState,
                                     play)} :
       \E s \in {IF generated /\ first.thrown
                  THEN ForEachCallback(detector, playCallbacks,
                                       [first EXCEPT !.thrown = FALSE], play)
                  ELSE first} :
         /\ Adopt(s)
         /\ isConnected' = IF s.thrown THEN isConnected ELSE TRUE
  /\ UNCHANGED <<detector, data, statName, timePeriods, calls, results,
                 firstResults, demoResults, eventSource, playCallbacks,
                 reconnectTimers, opened, mounts, received,
                 gameVars>>

\* eventSource.onerror: the browser retries (CONNECTING) or gives the
\* connection up (CLOSED); the handler starts the reconnect timer
OnError(fatal) ==
  /\ eventSource.readyState \in {"CONNECTING", "OPEN"}
  /\ reconnectTimers < MaxTimers
  /\ fatal => opened < MaxConnections
  /\ eventSource' = [eventSource EXCEPT
                       !.readyState = IF fatal THEN "CLOSED" ELSE "CONNECTING"]
  /\ isConnected' = FALSE
  /\ reconnectTimers' = reconnectTimers + 1
  /\ UNCHANGED <<detector, data, statName, timePeriods, calls, results,
                 firstResults, narrative, readableStatName, demoResults,
                 playCallbacks, opened, mounts, received, pending,
                 play_archive, anomalyCounts, detectionLog, tileUpdates,
                 gameVars>>

\* the timer set by onerror fires
ReconnectTimerFires ==
  /\ reconnectTimers > 0
  /\ reconnectTimers' = reconnectTimers - 1
  /\ AdoptService(reconnect(Service))
  /\ UNCHANGED <<detector, data, statName, timePeriods, calls, results,
                 firstResults, narrative, readableStatName, demoResults,
                 isConnected, mounts, received, pending, play_archive,
                 anomalyCounts, detectionLog, tileUpdates,
                 gameVars>>

\* the connection of the service: components mounting and unmounting, the
\* browser's connection events, and the reconnect timer
ConnectionNext ==
  \/ \E cb \in Callbacks : Mount(cb)
  \/ \E cb \in Callbacks : Unmount(cb)
  \/ StreamOpens
  \/ \E fatal \in BOOLEAN : OnError(fatal)
  \/ ReconnectTimerFires

\* setTimeout runs its callback once the delay has passed
ConnectionSpec ==
  StreamInit /\ [][ConnectionNext]_vars /\ WF_vars(ReconnectTimerFires)

\* the delivery of plays: components mounting, the connection opening, and
\* the two halves of the message handler, in any interleaving
FeedNext ==
  \/ \E cb \in Callbacks : Mount(cb)
  \/ StreamOpens
  \/ \E kind \in PlayKinds : OnMessage(kind)
  \/ \E play \in pending, generated \in BOOLEAN : CommentarySettles(play, generated)

FeedSpec == StreamInit /\ [][FeedNext]_vars

(***************************************************************************)
(* The game state.  The context feed (components/context-feed.tsx) passes  *)
(* every play it is called with to updateGameStateFromPlay of the service  *)
(* and displays the result; the tile applies its own copy of the function, *)
(* createUpdatedGameState, in a state updater.  A game state is copied     *)
(* with { ...currentGameState }, so the copy shares the winProbability and *)
(* driveInfo objects of the original: a game state holds the places of     *)
(* these two objects in the heap.  React applies the state updates a       *)
(* handler queued when the handler has returned, before the next event.    *)
(***************************************************************************)
HomeTeam == "KC"

AwayTeam == "PHI"

Touchdown == <<"T", "O", "U", "C", "H", "D", "O", "W", "N">>

FieldGoal == <<"F", "I", "E", "L", "D", " ", "G", "O", "A", "L">>

Safety == <<"S", "A", "F", "E", "T", "Y">>

ExtraPoint == <<"E", "X", "T", "R", "A", " ", "P", "O", "I", "N", "T">>

Good == <<"G", "O", "O", "D">>

TwoPoint == <<"T", "W", "O", "-", "P", "O", "I", "N", "T">>

\* the kinds of play of the game stream: touchdowns of either team and plays
\* that do not score
GamePlayKinds ==
  { [description |-> <<"T", "o", "u", "c", "h", "d", "o", "w", "n">>,
     offense_team |-> HomeTeam, defense_team |-> AwayTeam,
     yards_gained |-> 15, down |-> 1, yards_to_go |-> 10, yard_line |-> 15],
    [description |-> <<"T", "O", "U", "C", "H", "D", "O", "W", "N">>,
     offense_team |-> AwayTeam, defense_team |-> HomeTeam,
     yards_gained |-> 5, down |-> 3, yards_to_go |-> 5, yard_line |-> 5],
    [description |-> <<"r", "u", "s", "h">>,
     offense_team |-> HomeTeam, defense_team |-> AwayTeam,
     yards_gained |-> 4, down |-> 2, yards_to_go |-> 6, yard_line |-> 40],
    [description |-> <<"s", "a", "c", "k">>,
     offense_team |-> AwayTeam, defense_team |-> HomeTeam,
     yards_gained |-> -7, down |-> 4, yards_to_go |-> 12, yard_line |-> 60] }

\* the k-th play of the stream, as the service passes it to the callbacks
\* first: one quarter, the clock running down from play to play
GamePlay(k, kind) ==
  [id |-> k, quarter |-> 1, time |-> 900 - 10 * k,
   description |-> kind.description, offense_team |-> kind.offense_team,
   defense_team |-> kind.defense_team, yards_gained |-> kind.yards_gained,
   down |-> kind.down, yards_to_go |-> kind.yards_to_go,
   yard_line |-> kind.yard_line,
   aiCommentary |-> "Generating AI commentary..."]

\* String.prototype.toUpperCase
toUpperCase(str) == [k \in 1..Len(str) |-> CharToUpper(str[k])]

\* String.prototype.includes
Includes(str, sub) ==
  \E i \in 0..(Len(str) - Len(sub)) : SubSeq(str, i + 1, i + Len(sub)) = sub

\* a % b of JavaScript: the sign of the dividend
JsRemainder(a, b) == IF a >= 0 THEN a % b ELSE -((-a) % b)

getOrdinalSuffix(num) ==
  LET suffixes == <<"th", "st", "nd", "rd">>
      v == JsRemainder(num, 100)
      At(i) == IF i >= 0 /\ i < Len(suffixes) THEN <<suffixes[i + 1]>> ELSE <<>>
  IN  (At(JsRemainder(v - 20, 10)) \o At(v) \o At(0))[1]

\* minutes ":" seconds, the seconds padded to two digits
formatTimeRemaining(totalSeconds) ==
  LET seconds == NumberToString(totalSeconds % 60)
  IN  [minutes |-> NumberToString(totalSeconds \div 60),
       seconds |-> IF Len(seconds) < 2 THEN <<0>> \o seconds ELSE seconds]

calculateWinProbabilityChange(play, currentGameState) ==
  LET change == (IF play.yards_gained > 10 THEN 2 ELSE 0)
                + (IF play.yards_gained < -5 THEN -3 ELSE 0)
                + (IF play.down = 4 /\ play.yards_to_go > 5 THEN -5 ELSE 0)
                + (IF play.yard_line < 20 THEN 3 ELSE 0)
  IN  IF play.offense_team # currentGameState.homeTeam THEN -change ELSE change

\* the branch of the scoring test the description takes
ScoringBranch(play) ==
  LET description == toUpperCase(play.description)
  IN  IF Includes(description, Touchdown) THEN "touchdown"
      ELSE IF Includes(description, FieldGoal) THEN "fieldGoal"
      ELSE IF Includes(description, Safety) THEN "safety"
      ELSE IF Includes(description, ExtraPoint) /\ Includes(description, Good)
      THEN "extraPoint"
      ELSE IF Includes(description, TwoPoint) /\ Includes(description, Good)
      THEN "twoPoint"
      ELSE "regular"

\* the points the branch adds
Points(branch) ==
  IF branch = "touchdown" THEN 6
  ELSE IF branch = "fieldGoal" THEN 3
  ELSE IF branch = "safety" THEN 2
  ELSE IF branch = "extraPoint" THEN 1
  ELSE IF branch = "twoPoint" THEN 2
  ELSE 0

\* whether the branch adds its points to the home score: a safety scores for
\* the defense, everything else for the offense
ScoresForHome(play, branch, homeTeam) ==
  IF branch = "safety" THEN play.defense_team = homeTeam
  ELSE play.offense_team = homeTeam

\* the tile's createUpdatedGameState, and the body of the service's
\* updateGameStateFromPlay: the heap after the call, and the state returned
createUpdatedGameState(h, play, currentGameState) ==
  LET branch == ScoringBranch(play)
      forHome == ScoresForHome(play, branch, currentGameState.homeTeam)
      \* driveInfo: a new object on a touchdown or a field goal; on a play
      \* that does not score, the shared object is added to
      reset == branch \in {"touchdown", "fieldGoal"}
      driven ==
        IF reset THEN Append(h, NewDriveInfo)
        ELSE IF branch = "regular"
        THEN [h EXCEPT ![currentGameState.driveInfo] =
                [@ EXCEPT !.yards = @ + play.yards_gained, !.plays = @ + 1]]
        ELSE h
      newGameState ==
        [currentGameState EXCEPT
           !.quarter = [number |-> play.quarter,
                        suffix |-> getOrdinalSuffix(play.quarter)],
           !.timeLeft = formatTimeRemaining(play.time),
           !.possession = IF play.offense_team = currentGameState.homeTeam
                          THEN "home" ELSE "away",
           !.down = play.down,
           !.distance = play.yards_to_go,
           !.yardLine = play.yard_line,
           !.homeScore = IF forHome THEN @ + Points(branch) ELSE @,
           !.awayScore = IF forHome THEN @ ELSE @ + Points(branch),
           !.driveInfo = IF reset THEN Len(h) + 1 ELSE @]
      home == Max(0, Min(100, driven[newGameState.winProbability].home
                                + calculateWinProbabilityChange(play, newGameState)))
  IN  [heap |-> [driven EXCEPT ![newGameState.winProbability] =
                   [home |-> home, away |-> 100 - home]],
       newGameState |-> newGameState]

\* the service's game state callbacks: every component subscribes and
\* unsubscribes its game state callback together with its play callback
gameStateCallbacks == playCallbacks

\* what a handler reads and writes: the heap, the game context, the state
\* updates queued for each component, and the feed's context items
GameUi ==
  [heap |-> heap, gameContext |-> gameContext,
   queue |-> [cb \in Callbacks |-> <<>>], contextItems |-> contextItems]

\* updateGameStateFromPlay: the new state as createUpdatedGameState makes it,
\* the same points added to the game context, and the new state passed to
\* every game state callback, which sets it as its component's state
updateGameStateFromPlay(ui, play, currentGameState) ==
  LET r == createUpdatedGameState(ui.heap, play, currentGameState)
      branch == ScoringBranch(play)
      forHome == ScoresForHome(play, branch, currentGameState.homeTeam)
      Notify(cb) == \E k \in 1..Len(gameStateCallbacks) : gameStateCallbacks[k] = cb
  IN  [newGameState |-> r.newGameState,
       ui |-> [ui EXCEPT
         !.heap = r.heap,
         !.gameContext =
            [@ EXCEPT !.homeScore = IF forHome THEN @ + Points(branch) ELSE @,
                      !.awayScore = IF forHome THEN @ ELSE @ + Points(branch)],
         !.queue = [cb \in Callbacks |->
                      IF Notify(cb)
                      THEN Append(@[cb], [kind |-> "set", value |-> r.newGameState])
                      ELSE @[cb]]]]

\* the context item of a play: its id without the clock reading that ends it
ContextItem(enhancedPlay, updatedGameState) ==
  [quarter |-> enhancedPlay.quarter, time |-> enhancedPlay.time,
   aiCommentary |-> enhancedPlay.aiCommentary,
   winProbabilityChange |->
       calculateWinProbabilityChange(enhancedPlay, updatedGameState)]

\* the updater of setContextItems: the item of the play replaced if there is
\* one and the play has a commentary other than 'Generating commentary...',
\* a new item put first (ten kept) if there is none
UpdateContextItems(prev, enhancedPlay, newItem) ==
  LET Matches(k) == /\ prev[k].quarter = enhancedPlay.quarter
                    /\ prev[k].time = enhancedPlay.time
      found == { k \in 1..Len(prev) : Matches(k) }
      existingIndex == CHOOSE k \in found : \A j \in found : k <= j
  IN  IF found # {} /\ enhancedPlay.aiCommentary # "Generating commentary..."
      THEN [prev EXCEPT ![existingIndex] = newItem]
      ELSE IF found = {} THEN <<newItem>> \o SubSeq(prev, 1, Min(9, Len(prev)))
      ELSE prev

\* the feed's play callback (components/context-feed.tsx): the game state of
\* the last render passed to the service, the result set as the state, and
\* the context item of the play
ContextFeedHandleNewPlay(ui, enhancedPlay) ==
  LET currentGameState == gameState["contextFeed"]
      called == updateGameStateFromPlay(ui, enhancedPlay, currentGameState)
      updatedGameState == called.newGameState
  IN  [called.ui EXCEPT
         !.queue["contextFeed"] =
             Append(@, [kind |-> "set", value |-> updatedGameState]),
         !.contextItems =
             UpdateContextItems(@, enhancedPlay,
                                ContextItem(enhancedPlay, updatedGameState))]

\* the tile's play callback: setGameState(prevState => createUpdatedGameState(play, prevState))
LiveGameTileHandleNewPlay(ui, play) ==
  [ui EXCEPT !.queue["liveGameTile"] = Append(@, [kind |-> "update", value |-> play])]

\* this.playCallbacks.forEach(cb => cb(play)) for the game state
RECURSIVE GameForEachCallbackTo(_, _, _, _)
GameForEachCallbackTo(callbacks, ui, play, k) ==
  IF k = 0 THEN ui
  ELSE CHOOSE after \in
         { IF callbacks[k] = "contextFeed"
           THEN ContextFeedHandleNewPlay(before, play)
           ELSE LiveGameTileHandleNewPlay(before, play) :
           before \in {GameForEachCallbackTo(callbacks, ui, play, k - 1)} } : TRUE

\* React rendering a component: the queued updates applied in order to the
\* state of the last render; r is the heap and the state so far
RECURSIVE RenderTo(_, _, _)
RenderTo(r, queue, k) ==
  IF k = 0 THEN r
  ELSE CHOOSE after \in
         { IF queue[k].kind = "set"
           THEN [heap |-> before.heap, newGameState |-> queue[k].value]
           ELSE createUpdatedGameState(before.heap, queue[k].value,
                                       before.newGameState) :
           before \in {RenderTo(r, queue, k - 1)} } : TRUE

\* the variables after the handler's calls and the render that follows
GameAdopt(ui) ==
  \E feed \in {RenderTo([heap |-> ui.heap,
                         newGameState |-> gameState["contextFeed"]],
                        ui.queue["contextFeed"],
                        Len(ui.queue["contextFeed"]))} :
    \E tile \in {RenderTo([heap |-> feed.heap,
                           newGameState |-> gameState["liveGameTile"]],
                          ui.queue["liveGameTile"],
                          Len(ui.queue["liveGameTile"]))} :
      /\ heap' = tile.heap
      /\ gameState' = [cb \in Callbacks |->
                         IF cb = "contextFeed" THEN feed.newGameState
                         ELSE tile.newGameState]
      /\ gameContext' = ui.gameContext
      /\ contextItems' = ui.contextItems

\* the number of times the tile's callback is registered
TileCallbacks ==
  Cardinality({ k \in 1..Len(playCallbacks) : playCallbacks[k] = "liveGameTile" })

\* the teams request of a mounted component resolves: the service keeps the
\* names in its game context and the component sets them in a copy of its
\* game state
TeamsFetched(cb) ==
  /\ \E k \in 1..Len(playCallbacks) : playCallbacks[k] = cb
  /\ gameState[cb].homeTeam = ""
  /\ gameContext' = [gameContext EXCEPT !.homeTeam = HomeTeam,
                                        !.awayTeam = AwayTeam]
  /\ gameState' = [gameState EXCEPT ![cb] =
                     [@ EXCEPT !.homeTeam = HomeTeam, !.awayTeam = AwayTeam]]
  /\ UNCHANGED <<detector, data, statName, timePeriods, calls, results,
                 firstResults, narrative, readableStatName, demoResults,
                 streamVars, heap, contextItems>>

\* eventSource.onmessage up to its await, for the game state: the callbacks
\* are called with the play in its loading state.  The components have
\* their teams by then.
GameOnMessage(kind) ==
  /\ eventSource.readyState = "OPEN"
  /\ Len(received) < MaxPlays
  /\ \A k \in 1..Len(playCallbacks) : gameState[playCallbacks[k]].homeTeam # ""
  /\ \E enhancedPlay \in {GamePlay(Len(received) + 1, kind)} :
       /\ received' = Append(received, enhancedPlay)
       /\ pending' = pending \cup {enhancedPlay}
       /\ \E ui \in {GameForEachCallbackTo(playCallbacks, GameUi, enhancedPlay,
                                           Len(playCallbacks))} : GameAdopt(ui)
  /\ tileUpdates' = tileUpdates + TileCallbacks
  /\ UNCHANGED <<detector, data, statName, timePeriods, calls, results,
                 firstResults, narrative, readableStatName, demoResults,
                 eventSource, playCallbacks, isConnected, reconnectTimers,
                 opened, mounts, play_archive, anomalyCounts, detectionLog>>

\* eventSource.onmessage after its await, for the game state: the callbacks
\* are called again with the play carrying the commentary or the failure
\* text; then the service reports itself connected
GameCommentarySettles(play, generated) ==
  /\ play \in pending
  /\ pending' = pending \ {play}
  /\ \E finalEnhancedPlay \in
          {[play EXCEPT !.aiCommentary =
              IF generated THEN "AI commentary"
              ELSE "AI commentary failed to generate"]} :
       \E ui \in {GameForEachCallbackTo(playCallbacks, GameUi, finalEnhancedPlay,
                                        Len(playCallbacks))} : GameAdopt(ui)
  /\ isConnected' = TRUE
  /\ tileUpdates' = tileUpdates + TileCallbacks
  /\ UNCHANGED <<detector, data, statName, timePeriods, calls, results,
                 firstResults, narrative, readableStatName, demoResults,
                 eventSource, playCallbacks, reconnectTimers, opened, mounts,
                 received, play_archive, anomalyCounts, detectionLog>>

\* the game state under the delivery of plays: the components mount and get
\* their teams before the first play, the connection opens, and the two
\* halves of the message handler run in any interleaving
GameNext ==
  \/ \E cb \in Callbacks : received = <<>> /\ Mount(cb)
  \/ \E cb \in Callbacks : TeamsFetched(cb)
  \/ StreamOpens
  \/ \E kind \in GamePlayKinds : GameOnMessage(kind)
  \/ \E play \in pending, generated \in BOOLEAN : GameCommentarySettles(play, generated)

GameSpec == StreamInit /\ [][GameNext]_vars

(***************************************************************************)
(* Properties.                                                             *)
(***************************************************************************)
\* the latest detection returned a full result (not insufficient data)
Detected == results.called /\ ~HasError(results.value)

\* the elements of an array, as a set
Elements(arr) == { arr[k] : k \in 1..Len(arr) }

\* the types of every anomaly detail of a result
AllTypes(res) ==
  UNION { Elements(res.anomalyDetails[k].types) :
            k \in 1..Len(res.anomalyDetails) }

\* C1: after a detection on a series of at least windowSize points the
\* anomaly index list is in ascending numeric order, also when indices of two
\* digits occur.
C1_AnomaliesAscending ==
  Detected =>
    \A k \in 1..(Len(results.value.anomalies) - 1) :
      results.value.anomalies[k] < results.value.anomalies[k + 1]

\* all first differences of the series are equal
IsLinear(d) == \A k \in 2..(Len(d) - 1) : d[k + 1] - d[k] = d[k] - d[k - 1]

\* C2: on a series whose first differences are all equal no sudden change is
\* flagged or tagged, so the anomaly set is the set of the z-score and
\* slope-difference detectors.
C2_LinearSeriesNoSuddenChange ==
  (Detected /\ IsLinear(data)) =>
    /\ detectSuddenChanges(detector, ToNums(data)) = <<>>
    /\ "sudden_change" \notin AllTypes(results.value)
    /\ Elements(results.value.anomalies) =
         Elements(StatisticalAnomalies(detector, results.value.zScores))
         \cup Elements(detectSlopeChanges(detector, results.value.rollingSlopes))

\* C3: on a constant series of at least windowSize points every z-score is 0
\* and no index is flagged or tagged as a statistical outlier.
C3_ConstantSeriesZeroZScores ==
  (Detected /\ \A k \in 1..Len(data) : data[k] = data[1]) =>
    /\ \A k \in 1..Len(data) : IsZero(results.value.zScores[k])
    /\ StatisticalAnomalies(detector, results.value.zScores) = <<>>
    /\ "statistical_outlier" \notin AllTypes(results.value)

\* the fields detectTrendChanges derives from the series
DerivedFields ==
  {"anomalies", "anomalyDetails", "rollingMeans", "rollingSlopes", "zScores",
   "summary"}

\* C4: a detection called with a time index whose length differs from the
\* length of the series returns no result: nothing is derived from the
\* truncated or padded input.
C4_MismatchedTimeIndexRejected ==
  (results.called /\ ~timePeriods.isNull
     /\ Len(timePeriods.arr) # Len(data)) =>
    DOMAIN results.value \cap DerivedFields = {}

\* the time-index window of program index i, as calculateRollingSlopes cuts it
WindowTime(det, res, i) ==
  Slice(res.timePeriods, Max(0, i - det.windowSize + 1), i + 1)

\* C5: where the time index is constant over a window of two or more points
\* the rolling slope of that position is 0 (not infinite, not undefined).
C5_ConstantTimeWindowSlopeZero ==
  (Detected /\ Len(results.value.timePeriods) = Len(data)) =>
    \A i \in 1..(Len(data) - 1) :
      LET w == WindowTime(detector, results.value, i)
      IN  (Len(w) >= 2 /\ \A k \in 1..Len(w) : w[k] = w[1]) =>
            IsZero(results.value.rollingSlopes[i + 1])

\* C6: a series shorter than windowSize yields an insufficient-data result
\* carrying the series length and the required minimum and none of the
\* derived fields; a series of at least windowSize points never does.
C6_InsufficientData ==
  results.called =>
    IF Len(data) < detector.windowSize
    THEN /\ HasError(results.value)
         /\ results.value.dataLength = Len(data)
         /\ results.value.error.windowSize = detector.windowSize
         /\ DOMAIN results.value \cap DerivedFields = {}
    ELSE ~HasError(results.value)

C6_Witness ==
  /\ results.called
  /\ Len(data) > 0
  /\ Len(data) < detector.windowSize
  /\ HasError(results.value)

\* C7: the narrative of an insufficient-data result is a sentence list of
\* length 1, like every other narrative.
C7_FallbackIsSentenceList ==
  (narrative.called /\ HasError(results.value)) =>
    /\ narrative.value.type = "array"
    /\ Len(narrative.value.value) = 1

\* C8: every synonym listed in the table maps to its canonical label, and a
\* name that is no synonym maps to its lower-cased form.
C8_SynonymsMapToCanonical ==
  readableStatName.called =>
    /\ \A k \in 1..Len(conversions) :
         conversions[k][1] = statName =>
           readableStatName.value = conversions[k][2]
    /\ ~HasKey(toLowerCase(statName)) =>
         readableStatName.value = toLowerCase(statName)

C10_AnomaliesUniqueInRange ==
  Detected =>
    LET a == results.value.anomalies
    IN  /\ \A k \in 1..Len(a) : 0 <= a[k] /\ a[k] < Len(data)
        /\ \A j, k \in 1..Len(a) : j # k => a[j] # a[k]

\* an index flagged by two detectors, and the last index of the series flagged
C10_Witness ==
  /\ Detected
  /\ \E k \in 1..Len(results.value.anomalyDetails) :
       Len(results.value.anomalyDetails[k].types) >= 2
  /\ \E k \in 1..Len(results.value.anomalies) :
       results.value.anomalies[k] = Len(data) - 1

\* C11: every anomaly detail of a successful detection carries at least one of
\* the four type tags, and carries no other tag.
C11_TypesNonEmpty ==
  Detected =>
    \A k \in 1..Len(results.value.anomalyDetails) :
      LET types == results.value.anomalyDetails[k].types
      IN  /\ Len(types) >= 1
          /\ Elements(types) \subseteq {"statistical_outlier", "trend_change",
                                        "trend_reversal", "sudden_change"}

\* a detail flagged by the slope detector alone, for a reversal smaller than
\* minChangeMagnitude
C11_Witness ==
  /\ Detected
  /\ \E k \in 1..Len(results.value.anomalyDetails) :
       results.value.anomalyDetails[k].types = <<"trend_reversal">>

\* C12: for the series [0,1,2,3,6,10,3,1,5] named 'Rushes per drive' the
\* detection succeeds with a non-empty anomaly list, at least one detail is
\* tagged sudden_change, and the narrative is a list holding at least one
\* sudden-change sentence (a surge or a drop) about the rushing stat.
C12_DemoSuddenChange ==
  demoResults.called =>
    LET res == demoResults.value.res
        nar == demoResults.value.narrative
    IN  /\ ~HasError(res)
        /\ Len(res.anomalies) > 0
        /\ \E k \in 1..Len(res.anomalyDetails) :
             "sudden_change" \in Elements(res.anomalyDetails[k].types)
        /\ nar.type = "array"
        /\ \E k \in 1..Len(nar.value) :
             \/ nar.value[k].text \in
                  {"The team suddenly emphasized the running game.",
                   "The team moved away from the running game."}
             \/ /\ nar.value[k].text \in {"There was a sudden surge in .",
                                          "There was a noticeable drop in ."}
                /\ nar.value[k].stat = toLowerCase(RushesPerDrive)

\* the demo detection has run: the 10 -> 3 fall at index 6 is tagged
\* sudden_change and the narrative reports a drop in rushes per drive
C12_Witness ==
  /\ demoResults.called
  /\ \E k \in 1..Len(demoResults.value.res.anomalyDetails) :
       LET a == demoResults.value.res.anomalyDetails[k]
       IN  a.index = 6 /\ a.value = 3 /\ "sudden_change" \in Elements(a.types)
  /\ \E k \in 1..Len(demoResults.value.narrative.value) :
       demoResults.value.narrative.value[k] =
         [text |-> "There was a noticeable drop in .",
          stat |-> toLowerCase(RushesPerDrive)]

\* C13: for a series of length N >= windowSize, rollingMeans, rollingSlopes
\* and zScores each have exactly N entries.
C13_DerivedLengths ==
  (results.called /\ Len(data) >= detector.windowSize) =>
    /\ ~HasError(results.value)
    /\ Len(results.value.rollingMeans) = Len(data)
    /\ Len(results.value.rollingSlopes) = Len(data)
    /\ Len(results.value.zScores) = Len(data)

\* a detection over a series longer than the window
C13_Witness ==
  /\ Detected
  /\ Len(data) > detector.windowSize
  /\ Len(results.value.rollingMeans) > detector.windowSize

\* data[lo] + ... + data[hi] for a sequence of integers
RECURSIVE IntSum(_, _, _)
IntSum(arr, lo, hi) == IF lo > hi THEN 0 ELSE IntSum(arr, lo, hi - 1) + arr[hi]

\* C14: at every position i, rollingMeans[i] is the arithmetic mean of
\* data[max(0, i - W + 1) .. i], W = windowSize; at the last position that
\* is the mean of the last min(W, N) elements.
C14_RollingMeanIsWindowMean ==
  Detected =>
    LET W == detector.windowSize
        N == Len(data)
        rollingMeans == results.value.rollingMeans
    IN  /\ \A i \in 0..(N - 1) :
             LET lo == Max(0, i - W + 1)
                 count == i - lo + 1
             IN  /\ rollingMeans[i + 1].d > 0
                 /\ rollingMeans[i + 1].n * count =
                      IntSum(data, lo + 1, i + 1) * rollingMeans[i + 1].d
        /\ rollingMeans[N].n * Min(W, N) =
             IntSum(data, N - Min(W, N) + 1, N) * rollingMeans[N].d

\* a series longer than the window whose last window mean differs from the
\* mean of the whole series and from the mean of the first window
C14_Witness ==
  /\ Detected
  /\ Len(data) > detector.windowSize
  /\ results.value.rollingMeans[Len(data)] # mean(ToNums(data))
  /\ results.value.rollingMeans[Len(data)] #
       results.value.rollingMeans[detector.windowSize]

\* C15: for a successful detection result with no anomaly details,
\* generateNarrative returns a list of exactly one sentence, which states
\* that the normalized stat has remained fairly consistent.
C15_NoAnomaliesOneSentence ==
  (narrative.called /\ Detected /\ Len(results.value.anomalyDetails) = 0) =>
    /\ narrative.value.type = "array"
    /\ Len(narrative.value.value) = 1
    /\ narrative.value.value[1].text =
         " has remained fairly consistent throughout the game."
    /\ narrative.value.value[1].stat = readableStatName.value
    /\ readableStatName.value =
         (IF HasKey(toLowerCase(statName)) THEN Lookup(toLowerCase(statName))
          ELSE toLowerCase(statName))

\* the narrative of a detection that found nothing, for a stat name the
\* conversion table rewrites
C15_Witness ==
  /\ narrative.called
  /\ Detected
  /\ Len(results.value.anomalyDetails) = 0
  /\ Len(narrative.value.value) = 1
  /\ readableStatName.value # toLowerCase(statName)

\* x[lo] * y[lo] + ... + x[hi] * y[hi] for sequences of integers
RECURSIVE IntSumXY(_, _, _, _)
IntSumXY(x, y, lo, hi) ==
  IF lo > hi THEN 0 ELSE IntSumXY(x, y, lo, hi - 1) + x[hi] * y[hi]

\* the series is a + k * time for a strictly increasing time index
LinearInTime(d, t) ==
  /\ \A j \in 1..(Len(d) - 1) : t[j] < t[j + 1]
  /\ \A j \in 1..Len(d) :
       (d[j] - d[1]) * (t[2] - t[1]) = (d[2] - d[1]) * (t[j] - t[1])

\* C18: rollingSlopes[0] = 0; for i >= 1, rollingSlopes[i] is the least-squares
\* slope (n*sum(xy) - sum(x)*sum(y)) / (n*sum(x^2) - (sum x)^2) of the
\* (time, value) pairs of the window ending at i, whenever that quotient is
\* defined; and for a series exactly linear with slope k in a strictly
\* increasing time index, rollingSlopes[i] = k for every i >= 1.
C18_RollingSlopeIsLeastSquares ==
  (Detected /\ Len(results.value.timePeriods) >= Len(data)) =>
    LET W == detector.windowSize
        N == Len(data)
        t == results.value.timePeriods
        rollingSlopes == results.value.rollingSlopes
    IN  /\ rollingSlopes[1] = Num(0)
        /\ \A i \in 1..(N - 1) :
             LET lo == Max(0, i - W + 1)
                 n == i - lo + 1
                 sumX == IntSum(t, lo + 1, i + 1)
                 sumY == IntSum(data, lo + 1, i + 1)
                 sumXY == IntSumXY(t, data, lo + 1, i + 1)
                 sumXX == IntSumXY(t, t, lo + 1, i + 1)
                 num == n * sumXY - sumX * sumY
                 den == n * sumXX - sumX * sumX
             IN  den # 0 =>
                   /\ rollingSlopes[i + 1].d > 0
                   /\ rollingSlopes[i + 1].n * den = num * rollingSlopes[i + 1].d
        /\ LinearInTime(data, t) =>
             \A i \in 1..(N - 1) :
               /\ rollingSlopes[i + 1].d > 0
               /\ rollingSlopes[i + 1].n * (t[2] - t[1]) =
                    (data[2] - data[1]) * rollingSlopes[i + 1].d

\* the ramp 1, 2, ..., 6 in the default time index: every slope after the
\* first is 1
C18_Witness ==
  /\ Detected
  /\ data = <<1, 2, 3, 4, 5, 6>>
  /\ timePeriods.isNull
  /\ LinearInTime(data, results.value.timePeriods)
  /\ results.value.rollingSlopes =
       <<Num(0), Num(1), Num(1), Num(1), Num(1), Num(1)>>

\* the sum over j = 1..k of (m * (d[j + 1] - d[j]) - total)^2
RECURSIVE ScaledSquaredDeviations(_, _, _, _)
ScaledSquaredDeviations(d, m, total, k) ==
  IF k = 0 THEN 0
  ELSE ScaledSquaredDeviations(d, m, total, k - 1)
       + (m * (d[k + 1] - d[k]) - total) * (m * (d[k + 1] - d[k]) - total)

\* |d[i + 1] - d[i]| > sensitivity * population standard deviation of the
\* first differences of d, for a program index i, in integers: with m
\* differences of sum D the variance is sum((m * diff - D)^2) / m^3
JumpExceedsThreshold(det, d, i) ==
  LET m == Len(d) - 1
      diff == d[i + 2] - d[i + 1]
  IN  diff * diff * m * m * m * det.sensitivity.d * det.sensitivity.d >
        det.sensitivity.n * det.sensitivity.n
          * ScaledSquaredDeviations(d, m, d[Len(d)] - d[1], m)

\* C19: detectSuddenChanges returns exactly the indices i + 1, 0 <= i <= N - 2,
\* with |data[i + 1] - data[i]| > sensitivity * population standard deviation
\* of the first differences: the later point of each jump, strictly above
\* the threshold, each once and in increasing order, and never index 0.
C19_SuddenChangeSet ==
  Detected =>
    LET suddenChanges == detectSuddenChanges(detector, ToNums(data))
    IN  /\ Elements(suddenChanges) =
             { i + 1 : i \in { j \in 0..(Len(data) - 2) :
                                 JumpExceedsThreshold(detector, data, j) } }
        /\ \A k \in 1..(Len(suddenChanges) - 1) :
             suddenChanges[k] < suddenChanges[k + 1]
        /\ 0 \notin Elements(suddenChanges)
        /\ Elements(suddenChanges) \subseteq Elements(results.value.anomalies)

\* a series with a jump that is flagged at its later point and a jump that
\* stays below the threshold
C19_Witness ==
  /\ Detected
  /\ \E i \in 1..(Len(data) - 1) :
       /\ data[i + 1] # data[i]
       /\ i \in Elements(detectSuddenChanges(detector, ToNums(data)))
       /\ (i - 1) \notin Elements(detectSuddenChanges(detector, ToNums(data)))
  /\ \E i \in 1..(Len(data) - 1) :
       /\ data[i + 1] # data[i]
       /\ i \notin Elements(detectSuddenChanges(detector, ToNums(data)))

\* a * b < 0 for finite slopes a, b, in integers
ProductNegative(a, b) == a.n * b.n < 0

\* |a - b| > m for finite slopes a, b and a finite m, in integers
DifferenceExceeds(a, b, m) ==
  m.d * AbsInt(a.n * b.d - b.n * a.d) > m.n * a.d * b.d

\* C20: detectSlopeChanges returns exactly the indices i >= 1 with
\* rollingSlopes[i] * rollingSlopes[i - 1] < 0 or
\* |rollingSlopes[i] - rollingSlopes[i - 1]| > minChangeMagnitude, each once
\* and in increasing order; either condition alone suffices, index 0 is
\* never returned, an index next to a NaN slope is never returned, and a
\* slope list of fewer than two entries yields the empty list.
C20_SlopeChangeSet ==
  Detected =>
    LET rollingSlopes == results.value.rollingSlopes
        trendChanges == detectSlopeChanges(detector, rollingSlopes)
    IN  /\ (\A k \in 1..Len(rollingSlopes) : IsFinite(rollingSlopes[k])) =>
             Elements(trendChanges) =
               { i \in 1..(Len(rollingSlopes) - 1) :
                   \/ ProductNegative(rollingSlopes[i + 1], rollingSlopes[i])
                   \/ DifferenceExceeds(rollingSlopes[i + 1], rollingSlopes[i],
                                        detector.minChangeMagnitude) }
        /\ \A i \in 1..(Len(rollingSlopes) - 1) :
             (IsNaN(rollingSlopes[i + 1]) \/ IsNaN(rollingSlopes[i])) =>
               i \notin Elements(trendChanges)
        /\ \A k \in 1..(Len(trendChanges) - 1) :
             trendChanges[k] < trendChanges[k + 1]
        /\ 0 \notin Elements(trendChanges)
        /\ Elements(trendChanges) \subseteq Elements(results.value.anomalies)
        /\ detectSlopeChanges(detector, SubSeq(rollingSlopes, 1, 1)) = <<>>
        /\ detectSlopeChanges(detector, <<>>) = <<>>

\* finite slopes with an index returned for the sign change alone, an index
\* returned for the magnitude alone, and an index not returned
C20_Witness ==
  /\ Detected
  /\ \A k \in 1..Len(data) : IsFinite(results.value.rollingSlopes[k])
  /\ \E i, j, h \in 1..(Len(data) - 1) :
       LET rollingSlopes == results.value.rollingSlopes
           trendChanges == detectSlopeChanges(detector, rollingSlopes)
       IN  /\ i \in Elements(trendChanges)
           /\ ProductNegative(rollingSlopes[i + 1], rollingSlopes[i])
           /\ ~DifferenceExceeds(rollingSlopes[i + 1], rollingSlopes[i],
                                 detector.minChangeMagnitude)
           /\ j \in Elements(trendChanges)
           /\ ~ProductNegative(rollingSlopes[j + 1], rollingSlopes[j])
           /\ h \notin Elements(trendChanges)

\* the number of times the callback cb is registered in the list
Registrations(callbacks, cb) ==
  Cardinality({ k \in 1..Len(callbacks) : callbacks[k] = cb })

\* C16: whenever the stream's connection has reported an error and is closed
\* while at least one play callback is subscribed, a new connection is
\* eventually opened (by the reconnect timer, unless every callback is
\* unsubscribed first); the timer's reconnection leaves every callback
\* registered exactly as many times as before and opens exactly one
\* connection; and with no play callback subscribed the timer opens none.
C16_ReconnectsWhileSubscribed ==
  /\ \A c \in 1..MaxConnections :
       (eventSource = [id |-> c, readyState |-> "CLOSED"] /\ Len(playCallbacks) > 0)
         ~> (opened > c \/ Len(playCallbacks) = 0)
  /\ [][ReconnectTimerFires =>
          /\ \A cb \in Callbacks :
               Registrations(playCallbacks', cb) = Registrations(playCallbacks, cb)
          /\ (eventSource.readyState = "CLOSED" /\ Len(playCallbacks) > 0) =>
               /\ opened' = opened + 1
               /\ eventSource' = [id |-> opened', readyState |-> "CONNECTING"]
          /\ Len(playCallbacks) = 0 => (opened' = opened /\ eventSource' = null)
          /\ eventSource.readyState # "CLOSED" =>
               (opened' = opened /\ eventSource' = eventSource)]_vars

\* both components mounted once and still subscribed, on a second connection:
\* it was opened by the reconnect timer after the first was closed by an error
C16_Witness ==
  /\ mounts = [cb \in Callbacks |-> 1]
  /\ \A cb \in Callbacks : Registrations(playCallbacks, cb) = 1
  /\ opened = 2
  /\ eventSource = [id |-> 2, readyState |-> "CONNECTING"]
  /\ reconnectTimers = 0

\* the yards of the PASS, RUSH and SCRAMBLE plays among the first k received,
\* in arrival order, cut to the latest FeedSeriesCap
YardsReceived(k) ==
  LET Allowed(p) == p.play_type \in allowedTypes
      plays == SelectSeq(SubSeq(received, 1, k), Allowed)
  IN  SliceFromEnd([j \in 1..Len(plays) |-> plays[j].yards_gained],
                   FeedSeriesCap)

\* C17: for each play received, the feed runs its detection step once, and
\* the series it analyses holds one point for every PASS, RUSH or SCRAMBLE
\* play received up to then, in arrival order (the latest 30), whatever the
\* interleaving of the loading and the commentary callbacks.
C17_OnePointPerPlay ==
  \A k \in 1..Len(detectionLog) :
    /\ \A j \in 1..Len(detectionLog) :
         detectionLog[j].id = detectionLog[k].id => j = k
    /\ \E m \in detectionLog[k].id..Len(received) :
         detectionLog[k].yardsSeries = YardsReceived(m)

\* the sum over j = 1..k of (n * d[j] - total)^2
RECURSIVE ScaledSquaredResiduals(_, _, _, _)
ScaledSquaredResiduals(d, n, total, k) ==
  IF k = 0 THEN 0
  ELSE ScaledSquaredResiduals(d, n, total, k - 1)
       + (n * d[k] - total) * (n * d[k] - total)

\* |d[i] - mean| / population standard deviation of d > sensitivity, for a
\* program index i, in integers: with n points of sum S the squared z-score
\* is n * (n * d[i] - S)^2 / sum((n * d[j] - S)^2)
ZScoreAboveSensitivity(det, d, i) ==
  LET n == Len(d)
      total == IntSum(d, 1, n)
      dev == n * d[i + 1] - total
  IN  n * dev * dev * det.sensitivity.d * det.sensitivity.d >
        det.sensitivity.n * det.sensitivity.n
          * ScaledSquaredResiduals(d, n, total, n)

\* C21: for a series of at least windowSize points, an index is in the
\* returned anomaly list if and only if its z-score (population standard
\* deviation of the whole series) exceeds the sensitivity, or it is a
\* slope-change candidate, or it is a sudden-change index.
C21_AnomaliesAreUnionOfDetectors ==
  Detected =>
    Elements(results.value.anomalies) =
      { i \in 0..(Len(data) - 1) :
          \/ ZScoreAboveSensitivity(detector, data, i)
          \/ i \in Elements(detectSlopeChanges(detector, results.value.rollingSlopes))
          \/ (i >= 1 /\ JumpExceedsThreshold(detector, data, i - 1)) }

\* an index flagged by the z-score alone, an index flagged by another detector
\* and not by the z-score, and an index flagged by none
C21_Witness ==
  /\ Detected
  /\ \E i, j, h \in 0..(Len(data) - 1) :
       LET trendChanges == Elements(detectSlopeChanges(detector,
                                                       results.value.rollingSlopes))
           a == Elements(results.value.anomalies)
       IN  /\ i \in a
           /\ ZScoreAboveSensitivity(detector, data, i)
           /\ i \notin trendChanges
           /\ ~(i >= 1 /\ JumpExceedsThreshold(detector, data, i - 1))
           /\ j \in a
           /\ ~ZScoreAboveSensitivity(detector, data, j)
           /\ h \notin a

\* C22: an anomaly detail at index i is tagged trend_reversal if and only if
\* i >= 1 and RollingSlope[i - 1] * RollingSlope[i] < 0; a change of slope
\* magnitude without a sign flip, or a step to or from a zero slope, never
\* gives the tag.
C22_ReversalIffSignFlip ==
  Detected =>
    \A k \in 1..Len(results.value.anomalyDetails) :
      LET detail == results.value.anomalyDetails[k]
          i == detail.index
          rollingSlopes == results.value.rollingSlopes
      IN  "trend_reversal" \in Elements(detail.types) <=>
            (i >= 1 /\ ProductNegative(rollingSlopes[i], rollingSlopes[i + 1]))

\* a detail tagged as a reversal, a detail tagged as a trend change whose
\* slopes keep their sign, and a detail at a step from a zero slope to a
\* non-zero one that is not tagged as a reversal
C22_Witness ==
  /\ Detected
  /\ \E k, j, h \in 1..Len(results.value.anomalyDetails) :
       LET details == results.value.anomalyDetails
           rollingSlopes == results.value.rollingSlopes
       IN  /\ "trend_reversal" \in Elements(details[k].types)
           /\ "trend_change" \in Elements(details[j].types)
           /\ "trend_reversal" \notin Elements(details[j].types)
           /\ details[j].index >= 1
           /\ rollingSlopes[details[j].index].n * rollingSlopes[details[j].index + 1].n > 0
           /\ details[h].index >= 1
           /\ IsZero(rollingSlopes[details[h].index])
           /\ ~IsZero(rollingSlopes[details[h].index + 1])
           /\ IsFinite(rollingSlopes[details[h].index + 1])
           /\ "trend_reversal" \notin Elements(details[h].types)

\* the templates of the sentences of each group of the narrative
TrendTexts ==
  {" has picked up significantly.", " has dropped off notably.",
   "The team has been increasing their .",
   " has decreased over the last few drives.",
   "There's been a slight  in  recently."}

SurgeTexts ==
  {"The team suddenly emphasized the running game.",
   "The offense opened up the passing attack.",
   "The offense found their rhythm and started moving the chains.",
   "There was a sudden surge in ."}

DropTexts ==
  {"The team moved away from the running game.", "The passing game stalled.",
   "The offense struggled to sustain drives.",
   "There was a noticeable drop in ."}

OutlierTexts ==
  {"The team heavily featured the running game with  attempts.",
   "The quarterback was very busy, throwing  passes.",
   "The offense was extremely efficient, converting  first downs.",
   " was unusually high at .",
   "The running game was nearly abandoned with only  attempts.",
   "The passing game was minimal with just  attempts.",
   "The offense struggled badly, managing only  first downs.",
   " was surprisingly low at ."}

\* the positions of the details of res that carry the tag, in increasing order
Tagged(res, tag) ==
  LET Has(k) == tag \in Elements(res.anomalyDetails[k].types)
  IN  SelectSeq([k \in 1..Len(res.anomalyDetails) |-> k], Has)

\* a narrative was generated from a successful detection with anomalies
NarratedAnomalies ==
  /\ narrative.called
  /\ Detected
  /\ Len(results.value.anomalyDetails) > 0

\* C23: the narrative of a successful result with at least one anomaly is
\* the trend sentences, then one sentence per detail tagged sudden_change,
\* then one sentence per detail tagged statistical_outlier, each group in the
\* order of the anomaly details.
C23_NarrativeOrder ==
  NarratedAnomalies =>
    LET res == results.value
        statements == narrative.value.value
        sudden == Tagged(res, "sudden_change")
        outliers == Tagged(res, "statistical_outlier")
        trend == Len(statements) - Len(sudden) - Len(outliers)
    IN  /\ narrative.value.type = "array"
        /\ trend >= 0
        /\ \A k \in 1..trend : statements[k].text \in TrendTexts
        /\ \A k \in 1..Len(sudden) :
             LET i == res.anomalyDetails[sudden[k]].index
             IN  statements[trend + k].text \in
                   (IF data[i + 1] > data[i] THEN SurgeTexts ELSE DropTexts)
        /\ \A k \in 1..Len(outliers) :
             /\ statements[trend + Len(sudden) + k].text \in OutlierTexts
             /\ statements[trend + Len(sudden) + k].value =
                  res.anomalyDetails[outliers[k]].value

\* a narrative holding a trend sentence, a surge and a drop sentence in the
\* order of their details, and an outlier sentence
C23_Witness ==
  /\ NarratedAnomalies
  /\ LET statements == narrative.value.value
     IN  \E t, a, b, o \in 1..Len(statements) :
           /\ t < a /\ a < b /\ b < o
           /\ statements[t].text \in TrendTexts
           /\ statements[a].text \in SurgeTexts
           /\ statements[b].text \in DropTexts
           /\ statements[o].text \in OutlierTexts

\* the trend sentence for a slope s = n / d (d > 0) at the latest trend
\* anomaly, in integers; <<>> when there is none
ExpectedTrendText(s, isReversal) ==
  IF isReversal
  THEN (IF s.n > 0 THEN <<" has picked up significantly.">>
        ELSE <<" has dropped off notably.">>)
  ELSE IF 2 * s.n > s.d THEN <<"The team has been increasing their .">>
  ELSE IF 2 * s.n < -s.d THEN <<" has decreased over the last few drives.">>
  ELSE IF 5 * AbsInt(s.n) > s.d THEN <<"There's been a slight  in  recently.">>
  ELSE <<>>

\* C24: the trend part of the narrative is decided by the trend-tagged
\* anomaly (trend_change or trend_reversal) of greatest index and the rolling
\* slope s there: for a reversal 'picked up significantly' when s > 0 and
\* 'dropped off notably' otherwise; else 'increasing' when s > 0.5,
\* 'decreased' when s < -0.5, a slight uptick or downtick (by the sign of s)
\* when 0.2 < |s| <= 0.5, and nothing when |s| <= 0.2; never more than one
\* trend sentence, and none without a trend-tagged anomaly.
C24_TrendSentence ==
  NarratedAnomalies =>
    LET res == results.value
        statements == narrative.value.value
        trend == Len(statements) - Len(Tagged(res, "sudden_change"))
                   - Len(Tagged(res, "statistical_outlier"))
        tagged == Elements(Tagged(res, "trend_change"))
                    \cup Elements(Tagged(res, "trend_reversal"))
    IN  IF tagged = {}
        THEN trend = 0
        ELSE LET latest == CHOOSE k \in tagged :
                             \A j \in tagged : res.anomalyDetails[j].index
                                                 <= res.anomalyDetails[k].index
                 s == res.rollingSlopes[res.anomalyDetails[latest].index + 1]
                 expected == ExpectedTrendText(
                               s, latest \in Elements(Tagged(res, "trend_reversal")))
             IN  /\ IsFinite(s)
                 /\ trend = Len(expected)
                 /\ trend <= 1
                 /\ \A k \in 1..trend :
                      /\ statements[k].text = expected[k]
                      /\ "direction" \in DOMAIN statements[k] =>
                           statements[k].direction =
                             (IF s.n > 0 THEN "uptick" ELSE "downtick")

\* two trend-tagged anomalies whose own sentences would differ; the narrative
\* holds the sentence of the later one
C24_Witness ==
  /\ NarratedAnomalies
  /\ LET res == results.value
         tagged == Elements(Tagged(res, "trend_change"))
                     \cup Elements(Tagged(res, "trend_reversal"))
     IN  \E j, k \in tagged :
           /\ res.anomalyDetails[j].index < res.anomalyDetails[k].index
           /\ \A h \in tagged : res.anomalyDetails[h].index
                                  <= res.anomalyDetails[k].index
           /\ ExpectedTrendText(
                res.rollingSlopes[res.anomalyDetails[j].index + 1],
                j \in Elements(Tagged(res, "trend_reversal")))
              # ExpectedTrendText(
                  res.rollingSlopes[res.anomalyDetails[k].index + 1],
                  k \in Elements(Tagged(res, "trend_reversal")))
           /\ narrative.value.value[1].text \in TrendTexts

\* C25: the summary of a successful detection is the single line 'No
\* significant anomalies detected' when there is no anomaly detail; otherwise
\* it has 1 + len(anomalyDetails) lines: a header with the count of details,
\* then for each detail, in order, a line 'Period {timePeriod}: {description}
\* (value: {value})'.
C25_SummaryLines ==
  Detected =>
    LET details == results.value.anomalyDetails
        summary == results.value.summary
    IN  IF Len(details) = 0
        THEN /\ Len(summary) = 1
             /\ summary[1].line = "No significant anomalies detected in ."
             /\ summary[1].statName = statName
        ELSE /\ Len(summary) = 1 + Len(details)
             /\ summary[1].line = "Detected  anomalies in :"
             /\ summary[1].count = Len(details)
             /\ summary[1].statName = statName
             /\ \A k \in 1..Len(details) :
                  /\ summary[k + 1].line = "- Period : (value: )"
                  /\ summary[k + 1].timePeriod = details[k].timePeriod
                  /\ summary[k + 1].description = details[k].description
                  /\ summary[k + 1].value = details[k].value

\* a summary of three or more lines whose detail lines differ
C25_Witness ==
  /\ Detected
  /\ Len(results.value.summary) >= 3
  /\ results.value.summary[2] # results.value.summary[3]
  /\ results.value.summary[2].timePeriod = results.value.anomalyDetails[1].index + 1

\* C26: anomalyDetails has exactly one entry per anomaly index, in the order
\* of the anomaly list; the entry for index i has index = i, value =
\* Series[i] and timePeriod = TimeIndex[i], the time index being 1..N (so
\* timePeriod = i + 1) when none is supplied.
C26_OneDetailPerAnomaly ==
  (Detected /\ Len(results.value.timePeriods) >= Len(data)) =>
    LET res == results.value
    IN  /\ Len(res.anomalyDetails) = Len(res.anomalies)
        /\ \A k \in 1..Len(res.anomalies) :
             LET i == res.anomalies[k]
                 detail == res.anomalyDetails[k]
             IN  /\ detail.index = i
                 /\ detail.value = data[i + 1]
                 /\ detail.timePeriod =
                      (IF timePeriods.isNull THEN i + 1 ELSE timePeriods.arr[i + 1])

\* a detection without a time index that returns two or more details, one of
\* them for an index whose value differs from its time period
C26_Witness ==
  /\ Detected
  /\ timePeriods.isNull
  /\ Len(results.value.anomalyDetails) >= 2
  /\ \E k \in 1..Len(results.value.anomalyDetails) :
       /\ results.value.anomalyDetails[k].index >= 1
       /\ results.value.anomalyDetails[k].timePeriod
            = results.value.anomalyDetails[k].index + 1
       /\ results.value.anomalyDetails[k].value
            # results.value.anomalyDetails[k].timePeriod

\* C27: for every index i of the anomaly list, statistical_outlier is among
\* its types if and only if the z-score detector flagged i, sudden_change if
\* and only if detectSuddenChanges returned i, and trend_change or
\* trend_reversal if and only if detectSlopeChanges returned i.
C27_TypesMatchDetectors ==
  Detected =>
    LET res == results.value
        flaggedZ == Elements(StatisticalAnomalies(detector, res.zScores))
        flaggedSlope == Elements(detectSlopeChanges(detector, res.rollingSlopes))
        flaggedSudden == Elements(detectSuddenChanges(detector, ToNums(data)))
    IN  \A i \in Elements(res.anomalies) :
          \E k \in 1..Len(res.anomalyDetails) :
            LET detail == res.anomalyDetails[k]
                types == Elements(detail.types)
            IN  /\ detail.index = i
                /\ "statistical_outlier" \in types <=> i \in flaggedZ
                /\ "sudden_change" \in types <=> i \in flaggedSudden
                /\ ("trend_change" \in types \/ "trend_reversal" \in types)
                     <=> i \in flaggedSlope

\* an index flagged by the z-score and the sudden-change detectors and tagged
\* with both, and an index flagged by the slope detector alone and tagged
\* with a trend type alone
C27_Witness ==
  /\ Detected
  /\ \E j, k \in 1..Len(results.value.anomalyDetails) :
       LET details == results.value.anomalyDetails
       IN  /\ {"statistical_outlier", "sudden_change"}
                \subseteq Elements(details[j].types)
           /\ details[j].index \in
                Elements(StatisticalAnomalies(detector, results.value.zScores))
                  \cap Elements(detectSuddenChanges(detector, ToNums(data)))
           /\ Elements(details[k].types) \subseteq {"trend_change", "trend_reversal"}
           /\ details[k].index \in
                Elements(detectSlopeChanges(detector, results.value.rollingSlopes))

\* C28: for every successful detection result with at least one anomaly
\* generateNarrative returns a non-empty sentence list, also when the only
\* anomalies are trend changes with a small current slope.
C28_NarrativeNonEmpty ==
  NarratedAnomalies =>
    /\ narrative.value.type = "array"
    /\ Len(narrative.value.value) >= 1

\* the touchdowns among the plays received whose offense is the team
TouchdownsOf(team) ==
  Cardinality({ k \in 1..Len(received) :
                  /\ Includes(toUpperCase(received[k].description), Touchdown)
                  /\ received[k].offense_team = team })

\* C29: each play is applied to the score exactly once: when every play
\* received has been fully processed (its loading callback and its final
\* callback delivered to every subscriber), each touchdown has added exactly
\* 6 to the score of the team that scored it, in the service's game context
\* and in the game state every subscribed component displays, and nothing
\* to the other team's score.
C29_ScoreAppliedOnce ==
  (received # <<>> /\ pending = {}) =>
    /\ gameContext.homeScore = 6 * TouchdownsOf(HomeTeam)
    /\ gameContext.awayScore = 6 * TouchdownsOf(AwayTeam)
    /\ \A k \in 1..Len(playCallbacks) :
         /\ gameState[playCallbacks[k]].homeScore = 6 * TouchdownsOf(HomeTeam)
         /\ gameState[playCallbacks[k]].awayScore = 6 * TouchdownsOf(AwayTeam)

\* C30: updateGameStateFromPlay and createUpdatedGameState leave the game
\* state passed in unchanged: over every step that delivers a play, the game
\* state each component displayed before the step keeps the values of its
\* driveInfo.plays, driveInfo.yards, winProbability.home and
\* winProbability.away.
C30_PreviousStateUnchanged ==
  [][\A cb \in Callbacks :
       /\ heap'[gameState[cb].driveInfo] = heap[gameState[cb].driveInfo]
       /\ heap'[gameState[cb].winProbability] = heap[gameState[cb].winProbability]]_vars

====
